---- MODULE Spec2Model ----
(***************************************************************************)
(* A model of gemini-go-proxy: the Credential Manager (pkg/auth/auth.go),  *)
(* the persistence callback of the proxy (gemini.go) and the Request       *)
(* Dispatcher (pkg/client/client.go).                                      *)
(*                                                                         *)
(* Specifications:                                                         *)
(*   Spec            the authorization flow: OAuth callbacks, WaitForAuth, *)
(*                   the asynchronous persistence callback and the fatal-  *)
(*                   error slot, on a manager that loaded no token.        *)
(*   FairSpec        Spec with the timer of WaitForAuth eventually firing. *)
(*   InitializeSpec  Initialize over persisted token lists, interleaved    *)
(*                   with OAuth callbacks and token access.                *)
(*   SendSpec        Send: the retry loop with egress-route rotation.      *)
(*   StreamRawSpec   SendStreamRequestRaw: one request without a loop.     *)
(*   RaceSpec        goroutines selecting routes while the list changes.   *)
(*   ProjectSpec     the project id of the proxy and of the client.        *)
(***************************************************************************)
EXTENDS Integers, Sequences, FiniteSets, TLC

VARIABLES
    \* GoogleAuth (auth.go:39-60)
    tokens,          \* g.tokens: the persisted, transport-encoded tokens
    currentTokens,   \* g.currentTokens
    initialized,     \* g.initialized
    tokenSource,     \* g.tokenSource: the token the refreshing source holds
    callbackPath,    \* g.callbackPath
    onTokenReceived, \* whether g.onTokenReceived is set
    authComplete,    \* g.authComplete: buffered channel, as its buffer
    fatalErrorChan,  \* g.fatalErrorChan: buffered channel, as its buffer
    \* the OAuth callback handler's last exchange with its HTTP caller
    lastCall,
    \* WaitForAuth callers
    wpc,             \* per caller: idle, blocked, ok (returned nil), timeout
    okWaits,         \* WaitForAuth successes since the last successful callback
    \* GeminiProxy (gemini.go)
    pending,         \* tokens captured by persistence goroutines not yet run
    gpProjectID,     \* gp.config.ProjectID
    gpTokenFile,     \* gp.config.TokenFile
    lastPersist,     \* the error the last persistence callback returned
    running,         \* Start has not returned
    \* results of Initialize and GetToken
    initResult,
    lastGet,
    \* GeminiClient (client.go:40-48) and one Send in progress
    clientAuth,      \* c.auth != nil
    proxyURLs,       \* c.proxyURLs
    transport,       \* c.client.Transport: the active route, "direct" when nil
    maxRetries,      \* c.config.MaxRetries
    spc,             \* idle, loop (inside the retry loop), done
    attempt,         \* the loop variable
    lastErr,
    sendErr,         \* the error Send returned, NoErr for a response
    hist,            \* per loop iteration: the route in use and what happened
    rotations,       \* RotateProxy calls made by this Send
    \* one DiscoverProjectID call
    dpc,             \* idle, load, tiers, onboard, sleep, done
    loadCalls,       \* loadCodeAssist requests sent
    onboardCalls,    \* onboardUser requests sent
    backoffs,        \* time.Sleep(2 * time.Second) calls completed
    incomplete,      \* onboardUser answers that did not complete with an id
    discResult,      \* what DiscoverProjectID returned
    \* the last proxy-pool operation on the client
    poolOp,          \* its name and the pool it found
    poolErr,         \* the error it returned, "" for nil
    \* one streaming request through handleOpenAIStreamResponse
    ctxDone,         \* the inbound request's context is cancelled
    stpc,            \* idle, scan, check, deliver, done, closed
    received,        \* the lines scanner.Scan has returned, in order
    delivered,       \* indices of the lines whose chunk went to the callback
    streamRes,       \* what SendStreamRequest returned
    doCalls,         \* outbound requests that reached the network
    lateDeliveries,  \* callback invocations made after the cancellation
    wire,            \* the frames written to the gateway's client
    \* per stream of SendOpenAIStreamRequest
    roleSent,        \* the roleSent local of the call
    produced,        \* the chunks GeminiStreamToOpenAI returned, in order
    \* credential managers side by side
    binding,         \* per manager: g.clientBinding
    mgrPath,         \* per manager: g.callbackPath
    lastRoute,       \* the last callback request and the managers that took it
    lastHealth,      \* how the last Health call ended and the token it looked at
    \* the gateway's authMiddleware
    apiKeys,         \* s.config.APIKeys
    gwReq,           \* the last request that came in
    gwRes,           \* what authMiddleware did with it: forwarded, 401
    \* one call of a FormatConverter function
    convIn,          \* its arguments
    convOut,         \* what it returned, or left in the request it was given
    \* the client's own configuration (client.go:41) and its last request body
    apiMode,         \* c.config.APIMode
    cfgProject,      \* c.config.ProjectID
    envelope,        \* the body sendRequestWithRetry serialized last
    \* goroutines that select a route or replace the route list
    rpc,             \* per goroutine: its position in the function it runs
    rloc,            \* per goroutine: its argument and the values it has read
    fault            \* the runtime panic a goroutine raised, "none" otherwise

authVars == <<tokens, currentTokens, initialized, tokenSource, callbackPath, onTokenReceived>>
chanVars == <<authComplete, fatalErrorChan>>
waitVars == <<wpc, okWaits>>
proxyVars == <<pending, gpProjectID, gpTokenFile, lastPersist, running>>
accessVars == <<initResult, lastGet>>
clientVars == <<clientAuth, proxyURLs, transport, maxRetries>>
sendVars == <<spc, attempt, lastErr, sendErr, hist, rotations>>
discVars == <<dpc, loadCalls, onboardCalls, backoffs, incomplete, discResult>>
poolVars == <<poolOp, poolErr>>
streamVars == <<ctxDone, stpc, received, delivered, streamRes, doCalls, lateDeliveries, wire>>
roleVars == <<roleSent, produced>>
pathVars == <<binding, mgrPath, lastRoute>>
healthVars == <<lastHealth>>
gateVars == <<apiKeys, gwReq, gwRes>>
convVars == <<convIn, convOut>>
projVars == <<apiMode, cfgProject, envelope>>
raceVars == <<rpc, rloc, fault>>
endVars == <<projVars, raceVars>>
lateVars == <<pathVars, healthVars, gateVars, convVars, endVars>>
extVars == <<discVars, poolVars, streamVars, roleVars, lateVars>>
vars == <<authVars, chanVars, lastCall, waitVars, proxyVars, accessVars, clientVars, sendVars,
          extVars>>

-----------------------------------------------------------------------------
(* Bounds *)

\* persistence goroutines spawned and not yet run
MaxPending == 2
\* length of the persisted token list
MaxTokens == 2
\* number of egress routes of the pool
MaxRoutes == 2
\* length of a route list given to NewGeminiClient or SetProxyList
MaxList == 3
\* longest stream, in lines scanned and in chunks converted
MaxFrames == 3
\* length of the configured API-key list
MaxKeys == 2
\* length of the message list of a unified request
MaxMsgs == 3
\* candidates of a backend response, and parts of a candidate
MaxCands == 2
MaxParts == 2
\* applications of ValidateAndFixRequest to one request
MaxApply == 2
\* largest configured max-retries value
MaxRetriesCfg == 3

(* Program constants *)

\* make(chan bool, 1), make(chan error, 1)
ChanCap == 1
\* maxRetries = 3 when the configured value is not positive
DefaultMaxRetries == 3
\* for i := 0; i < 10; i++ in onboardUser
MaxOnboardAttempts == 10
\* time.Sleep(2 * time.Second) in onboardUser
BackoffSeconds == 2
\* the callback path ends with clientID[:12], or hashStr[:12]
PathChars == 12
\* defaultTokens := 2048
DefaultTokens == 2048

-----------------------------------------------------------------------------
(* Tokens and their transport encoding *)

NilToken == [access |-> "", expired |-> FALSE, origin |-> "nil"]

\* oauth2.Token.Valid as the code uses it: an access token that has not expired
Valid(t) == t.access # "" /\ ~t.expired

\* tokens a successful code exchange returns
ExchangeTokens ==
    { [access |-> a, expired |-> FALSE, origin |-> "exchanged"] : a \in {"X1", "X2"} }

\* json.Marshal + base64.StdEncoding.EncodeToString of a token
EncodeToken(t) == [b64ok |-> TRUE, jsonok |-> TRUE, access |-> t.access, expired |-> t.expired]

\* persisted entries: not base64, base64 of non-JSON, a JSON token without
\* access token, a live token, an expired token
PersistedEntries ==
    { [b64ok |-> FALSE, jsonok |-> FALSE, access |-> "", expired |-> FALSE],
      [b64ok |-> TRUE, jsonok |-> FALSE, access |-> "", expired |-> FALSE],
      [b64ok |-> TRUE, jsonok |-> TRUE, access |-> "", expired |-> FALSE],
      [b64ok |-> TRUE, jsonok |-> TRUE, access |-> "A", expired |-> FALSE],
      [b64ok |-> TRUE, jsonok |-> TRUE, access |-> "B", expired |-> TRUE] }

-----------------------------------------------------------------------------
(* Channels with a non-blocking producer *)

\* select { case ch <- v: default: } on a channel with no waiting receiver
TrySend_Queue(ch, v) == Append(ch, v)
TrySend(ch, v) == IF Len(ch) < ChanCap THEN Append(ch, v) ELSE ch

\* Send's errors: what failed, and the attempt count when the message is
\* "request failed after N attempts: ..." (0 otherwise)
Err(kind, detail, status) == [attempts |-> 0, kind |-> kind, detail |-> detail, status |-> status]
NoErr == Err("", "", 0)

-----------------------------------------------------------------------------
(* The OAuth callback *)

OAuthClientID == "681255809395-oo8ft2oprdrnp9e3aqf6av3hmdib135j.apps.googleusercontent.com"
BoundPath == "/oauth/callback/681255809395"
Paths == {BoundPath, "/wrong/path"}
ErrorParams == {"", "access_denied"}
Codes == {"", "c1"}
Requests == [path : Paths, error : ErrorParams, code : Codes]

Reply(code, ctype, fields, status, error) ==
    [code |-> code, ctype |-> ctype, fields |-> fields, status |-> status, error |-> error]

NoReply == Reply(0, "", {}, "", "")
NoRequest == [path |-> "", error |-> "", code |-> ""]
\* exchange: "none" (not attempted), "failed", "ok"; signal: what became of the
\* auth-complete signal: "none", "received" (by a blocked WaitForAuth),
\* "buffered", "dropped"
NoCall == [req |-> NoRequest, resp |-> NoReply, exchange |-> "none",
           signal |-> "none", spawned |-> FALSE]

\* http.Error(w, errorMsg, http.StatusBadRequest)
InvalidPathReply == Reply(400, "text/plain", {}, "", "")
ProviderErrorReply_OK(e) == Reply(200, "application/json", {"status", "error", "message"}, "error", e)
ProviderErrorReply(e) == Reply(400, "application/json", {"status", "error", "message"}, "error", e)
\* w.WriteHeader(http.StatusNoContent): no body
NoCodeReply == Reply(204, "", {}, "", "")
ExchangeFailedReply_400 ==
    Reply(400, "application/json", {"status", "error", "message"}, "error", "exchange failed")
ExchangeFailedReply ==
    Reply(500, "application/json", {"status", "error", "message"}, "error", "exchange failed")
SuccessReply ==
    Reply(200, "application/json",
          {"status", "message", "client_id", "callback_path", "token_expires", "note"},
          "success", "")

Call(req, resp, exchange, signal, spawned) ==
    [req |-> req, resp |-> resp, exchange |-> exchange, signal |-> signal, spawned |-> spawned]

\* r.URL.Path != g.callbackPath
PathMatches_Any(req) == TRUE
PathMatches(req) == req.path = callbackPath

Blocked == { w \in DOMAIN wpc : wpc[w] = "blocked" }

\* the branch after a successful exchange (auth.go:338-380)
ExchangeSucceeded(req, tok) ==
    /\ onTokenReceived => Len(pending) < MaxPending
    /\ currentTokens' = tok
    /\ pending' = IF onTokenReceived THEN Append(pending, tok) ELSE pending
    /\ \/ /\ Blocked # {}
          /\ \E w \in Blocked : wpc' = [wpc EXCEPT ![w] = "ok"]
          /\ okWaits' = 1
          /\ authComplete' = authComplete
          /\ lastCall' = Call(req, SuccessReply, "ok", "received", onTokenReceived)
       \/ /\ Blocked = {}
          /\ authComplete' = TrySend(authComplete, TRUE)
          /\ okWaits' = 0
          /\ wpc' = wpc
          /\ lastCall' = Call(req, SuccessReply, "ok",
                              IF authComplete' # authComplete THEN "buffered" ELSE "dropped",
                              onTokenReceived)

handleOAuthCallback(req, exOK, tok) ==
    /\ running
    /\ IF ~PathMatches(req) THEN
           /\ lastCall' = Call(req, InvalidPathReply, "none", "none", FALSE)
           /\ UNCHANGED <<currentTokens, pending, authComplete, wpc, okWaits>>
       ELSE IF req.error # "" THEN
           /\ lastCall' = Call(req, ProviderErrorReply(req.error), "none", "none", FALSE)
           /\ UNCHANGED <<currentTokens, pending, authComplete, wpc, okWaits>>
       ELSE IF req.code = "" THEN
           /\ lastCall' = Call(req, NoCodeReply, "none", "none", FALSE)
           /\ UNCHANGED <<currentTokens, pending, authComplete, wpc, okWaits>>
       ELSE IF ~exOK THEN
           /\ lastCall' = Call(req, ExchangeFailedReply, "failed", "none", FALSE)
           /\ UNCHANGED <<currentTokens, pending, authComplete, wpc, okWaits>>
       ELSE ExchangeSucceeded(req, tok)
    /\ UNCHANGED <<tokens, initialized, tokenSource, callbackPath, onTokenReceived>>
    /\ UNCHANGED <<fatalErrorChan, gpProjectID, gpTokenFile, lastPersist, running>>
    /\ UNCHANGED <<accessVars, clientVars, sendVars>>
    /\ UNCHANGED extVars

Callback == \E req \in Requests, exOK \in BOOLEAN, tok \in ExchangeTokens :
                handleOAuthCallback(req, exOK, tok)

-----------------------------------------------------------------------------
(* WaitForAuth *)

Waiters == {"w1", "w2"}

\* a WaitForAuth that blocks without looking at the channel first
WaitForAuth_NoPoll(w) ==
    /\ running
    /\ wpc[w] # "blocked"
    /\ wpc' = [wpc EXCEPT ![w] = "blocked"]
    /\ UNCHANGED <<authComplete, okWaits>>
    /\ UNCHANGED <<authVars, fatalErrorChan, lastCall, proxyVars, accessVars, clientVars, sendVars>>
    /\ UNCHANGED extVars

\* the call: a pending signal is received at once, otherwise the caller blocks
WaitForAuth(w) ==
    /\ running
    /\ wpc[w] # "blocked"
    /\ IF authComplete # <<>> THEN
           /\ authComplete' = Tail(authComplete)
           /\ wpc' = [wpc EXCEPT ![w] = "ok"]
           /\ okWaits' = okWaits + 1
       ELSE
           /\ wpc' = [wpc EXCEPT ![w] = "blocked"]
           /\ UNCHANGED <<authComplete, okWaits>>
    /\ UNCHANGED <<authVars, fatalErrorChan, lastCall, proxyVars, accessVars, clientVars, sendVars>>
    /\ UNCHANGED extVars

\* case <-time.After(timeout)
WaitTimeout(w) ==
    /\ running
    /\ wpc[w] = "blocked"
    /\ wpc' = [wpc EXCEPT ![w] = "timeout"]
    /\ UNCHANGED <<authVars, chanVars, lastCall, okWaits, proxyVars, accessVars, clientVars, sendVars>>
    /\ UNCHANGED extVars

WaitCall == \E w \in Waiters : WaitForAuth(w)
WaitExpire == \E w \in Waiters : WaitTimeout(w)

-----------------------------------------------------------------------------
(* The persistence callback (gemini.go) and the fatal-error slot *)

ErrSaveConfig == "failed to save config file"
ErrProjectIDRequired == "project ID is required but could not be discovered automatically"
ErrSaveProjectID == "failed to save project ID to config file"

\* strings.Contains(err.Error(), "project ID is required but could not be
\* discovered automatically")
ContainsProjectIDMsg_Any(err) == TRUE
ContainsProjectIDMsg(err) == err = ErrProjectIDRequired

\* what DiscoverProjectID returns: "" stands for an error
DiscoveryResults == {"", "123456789012"}

handleProjectIDDiscovery(disc, saveOK) ==
    IF gpProjectID # "" THEN [err |-> "", projectID |-> gpProjectID]
    ELSE IF disc = "" THEN [err |-> ErrProjectIDRequired, projectID |-> ""]
    ELSE IF ~saveOK THEN [err |-> ErrSaveProjectID, projectID |-> disc]
    ELSE [err |-> "", projectID |-> disc]

SaveTokenClientIDAndProjectID(tokSaveOK, disc, saveOK) ==
    IF ~tokSaveOK THEN [err |-> ErrSaveConfig, projectID |-> gpProjectID]
    ELSE handleProjectIDDiscovery(disc, saveOK)

RemoveAt(s, i) == SubSeq(s, 1, i - 1) \o SubSeq(s, i + 1, Len(s))

\* the goroutine of auth.go:347-358
PersistGoroutine(i, tokSaveOK, disc, saveOK) ==
    /\ running
    /\ i \in 1..Len(pending)
    /\ LET r == SaveTokenClientIDAndProjectID(tokSaveOK, disc, saveOK) IN
         /\ gpTokenFile' = EncodeToken(pending[i])
         /\ gpProjectID' = r.projectID
         /\ lastPersist' = r.err
         /\ fatalErrorChan' =
                IF r.err # "" /\ ContainsProjectIDMsg(r.err)
                THEN TrySend(fatalErrorChan, r.err)
                ELSE fatalErrorChan
    /\ pending' = RemoveAt(pending, i)
    /\ UNCHANGED <<authVars, authComplete, lastCall, waitVars, running, accessVars, clientVars, sendVars>>
    /\ UNCHANGED extVars

Persist == \E i \in 1..MaxPending, tokSaveOK \in BOOLEAN, disc \in DiscoveryResults,
              saveOK \in BOOLEAN : PersistGoroutine(i, tokSaveOK, disc, saveOK)

\* Start: case fatalErr := <-fatalErrorChan (gemini.go:463-467)
FatalReceive ==
    /\ running
    /\ fatalErrorChan # <<>>
    /\ fatalErrorChan' = Tail(fatalErrorChan)
    /\ running' = FALSE
    /\ UNCHANGED <<authVars, authComplete, lastCall, waitVars, accessVars>>
    /\ UNCHANGED <<pending, gpProjectID, gpTokenFile, lastPersist, clientVars, sendVars>>
    /\ UNCHANGED extVars

-----------------------------------------------------------------------------
(* Initialize and token access *)

ErrDecode == "failed to decode base64 token"
ErrParse == "failed to parse OAuth2 token"
ErrNoAccess == "invalid token: missing access_token"
ErrAuthRequired == "OAuth2 authentication required, please call StartOAuthFlow"
ErrNotInitialized == "authentication not initialized"
ErrGetToken == "failed to get token"

\* base64 decode, JSON parse, access-token check; the token on success
loadTokenFromBase64(e) ==
    IF ~e.b64ok THEN [err |-> ErrDecode, token |-> NilToken]
    ELSE IF ~e.jsonok THEN [err |-> ErrParse, token |-> NilToken]
    ELSE IF e.access = "" THEN [err |-> ErrNoAccess, token |-> NilToken]
    ELSE [err |-> "", token |-> [access |-> e.access, expired |-> e.expired, origin |-> "loaded"]]

\* the loop of Initialize: g.currentTokens after it, starting from cur
RECURSIVE LoadTokens(_, _)
LoadTokens(list, cur) ==
    IF list = <<>> THEN cur
    ELSE LET r == loadTokenFromBase64(Head(list)) IN
         IF r.err = "" THEN r.token ELSE LoadTokens(Tail(list), cur)

Initialize ==
    /\ running
    /\ IF initialized THEN
           /\ initResult' = "nil"
           /\ UNCHANGED <<currentTokens, tokenSource, initialized>>
       ELSE LET cur == LoadTokens(tokens, currentTokens) IN
           /\ currentTokens' = cur
           /\ IF cur = NilToken THEN
                  /\ initResult' = ErrAuthRequired
                  /\ UNCHANGED <<tokenSource, initialized>>
              ELSE
                  /\ tokenSource' = cur
                  /\ initialized' = TRUE
                  /\ initResult' = "nil"
    /\ UNCHANGED <<tokens, callbackPath, onTokenReceived, chanVars, lastCall, waitVars>>
    /\ UNCHANGED <<proxyVars, lastGet, clientVars, sendVars>>
    /\ UNCHANGED extVars

\* the token a refresh returns
RefreshedToken == [access |-> "R", expired |-> FALSE, origin |-> "refreshed"]

\* g.tokenSource.Token(): the held token while valid, otherwise a refresh,
\* which succeeds or not
SourceToken(refreshOK) ==
    IF Valid(tokenSource) THEN [err |-> "", token |-> tokenSource]
    ELSE IF refreshOK THEN [err |-> "", token |-> RefreshedToken]
    ELSE [err |-> ErrGetToken, token |-> NilToken]

GetTokenResult(refreshOK) ==
    IF ~initialized THEN [err |-> ErrNotInitialized, token |-> NilToken]
    ELSE SourceToken(refreshOK)

GetToken(refreshOK) ==
    /\ running
    /\ LET r == GetTokenResult(refreshOK) IN
         /\ lastGet' = IF r.err = "" THEN r.token.access ELSE r.err
         /\ tokenSource' = IF r.err = "" THEN r.token ELSE tokenSource
    /\ UNCHANGED <<tokens, currentTokens, initialized, callbackPath, onTokenReceived>>
    /\ UNCHANGED <<chanVars, lastCall, waitVars, proxyVars, initResult, clientVars, sendVars>>
    /\ UNCHANGED extVars

TokenAccess == \E refreshOK \in BOOLEAN : GetToken(refreshOK)

\* createRequest: the Authorization header ("" when none is set)
createRequest(refreshOK) ==
    IF clientAuth /\ initialized THEN
        LET r == GetTokenResult(refreshOK) IN
        IF r.err # "" THEN [err |-> "failed to get auth token", bearer |-> "", source |-> tokenSource]
        ELSE [err |-> "", bearer |-> r.token.access, source |-> r.token]
    ELSE [err |-> "", bearer |-> "", source |-> tokenSource]

-----------------------------------------------------------------------------
(* The authorization flow *)

NoEntry == [b64ok |-> FALSE, jsonok |-> FALSE, access |-> "", expired |-> FALSE]

\* the proxy and its WaitForAuth callers before any callback
FlowIdle ==
    /\ callbackPath = BoundPath
    /\ authComplete = <<>>
    /\ fatalErrorChan = <<>>
    /\ lastCall = NoCall
    /\ wpc = [w \in Waiters |-> "idle"]
    /\ okWaits = 0
    /\ pending = <<>>
    /\ gpTokenFile = NoEntry
    /\ lastPersist = ""
    /\ running = TRUE
    /\ initResult = "none"
    /\ lastGet = "none"

\* id, or err and the error it wraps
NoDiscResult == [id |-> "", err |-> "", cause |-> ""]

\* no DiscoverProjectID call made
DiscIdle ==
    /\ dpc = "idle"
    /\ loadCalls = 0
    /\ onboardCalls = 0
    /\ backoffs = 0
    /\ incomplete = 0
    /\ discResult = NoDiscResult

\* the operation, its argument and the active route it found
NoPoolOp == [name |-> "NewGeminiClient", arg |-> <<>>, active |-> "direct"]

\* no pool operation made since NewGeminiClient
PoolIdle ==
    /\ poolOp = NoPoolOp
    /\ poolErr = ""

Streams == {"s1", "s2"}
NoRes == [kind |-> "pending", cause |-> ""]

\* no streaming request made
StreamIdle ==
    /\ ctxDone = FALSE
    /\ stpc = "idle"
    /\ received = <<>>
    /\ delivered = <<>>
    /\ streamRes = NoRes
    /\ doCalls = 0
    /\ lateDeliveries = 0
    /\ wire = <<>>
    /\ roleSent = [s \in Streams |-> FALSE]
    /\ produced = [s \in Streams |-> <<>>]

Managers == {"g1", "g2"}
NoRoute == [path |-> "", takenBy |-> {}]

\* both managers as NewGoogleAuth makes them, no callback routed yet
PathIdle ==
    /\ binding = [m \in Managers |-> OAuthClientID]
    /\ mgrPath = [m \in Managers |-> BoundPath]
    /\ lastRoute = NoRoute

NoHealth == [outcome |-> "none", err |-> "", token |-> NilToken]

Absent == "<absent>"
NoGateRequest == [path |-> "", authorization |-> Absent, xApiKey |-> Absent,
              xGoogApiKey |-> Absent, key |-> Absent]

\* a gateway without API keys that has served nothing
GateIdle ==
    /\ apiKeys = <<>>
    /\ gwReq = NoGateRequest
    /\ gwRes = "none"

NoValue == [none |-> TRUE]

\* no converter call made
ConvIdle ==
    /\ convIn = NoValue
    /\ convOut = NoValue

LateIdle ==
    /\ PathIdle
    /\ lastHealth = NoHealth
    /\ GateIdle
    /\ ConvIdle

Goroutines == {"r1", "r2", "s1"}
NoLocal == [arg |-> <<>>, n |-> 0, idx |-> 0, url |-> ""]

\* no goroutine inside a pool operation
RaceIdle ==
    /\ rpc = [t \in Goroutines |-> "idle"]
    /\ rloc = [t \in Goroutines |-> NoLocal]
    /\ fault = "none"

NoEnvelope == [sent |-> FALSE, model |-> "", project |-> ""]

\* a client set up by setupClientAndServer for the internal-assist backend,
\* which has serialized nothing
ProjIdle ==
    /\ apiMode = "code_assist"
    /\ cfgProject = gpProjectID
    /\ envelope = NoEnvelope

EndIdle == ProjIdle /\ RaceIdle

ExtIdle == DiscIdle /\ PoolIdle /\ StreamIdle /\ LateIdle /\ EndIdle

\* no Send in progress
SendIdle ==
    /\ spc = "idle"
    /\ attempt = 0
    /\ lastErr = NoErr
    /\ sendErr = NoErr
    /\ hist = <<>>
    /\ rotations = 0

\* NewGoogleAuth(nil config), SetOnTokenReceived or not, a client without routes
Init ==
    /\ tokens = <<>>
    /\ currentTokens = NilToken
    /\ initialized = FALSE
    /\ tokenSource = NilToken
    /\ onTokenReceived \in BOOLEAN
    /\ gpProjectID \in {"", "123456789012"}
    /\ FlowIdle
    /\ clientAuth = TRUE
    /\ proxyURLs = <<>>
    /\ transport = "direct"
    /\ maxRetries = DefaultMaxRetries
    /\ SendIdle
    /\ ExtIdle

Next ==
    \/ Callback
    \/ WaitCall
    \/ WaitExpire
    \/ Persist
    \/ FatalReceive

Spec == Init /\ [][Next]_vars

FairSpec == Spec /\ \A w \in Waiters : WF_vars(WaitTimeout(w))

-----------------------------------------------------------------------------
(* Send: the retry loop of sendRequestWithRetry *)

AllRoutes == <<"http://p1:8080", "http://p2:8080", "http://p3:8080", "http://p4:8080">>
Pools == { SubSeq(AllRoutes, 1, k) : k \in 0..MaxRoutes }
Range(f) == { f[i] : i \in DOMAIN f }

\* errors of c.client.Do, with the phrases of the lexicon each message holds
DoErrors == {"dial tcp: connect: connection refused", "proxyconnect tcp: EOF", "unexpected EOF"}
Lexicon == {"connection refused", "connection reset", "connection timeout", "no such host",
            "network unreachable", "timeout", "dial tcp", "proxy"}
PhrasesIn(err) ==
    IF err = "dial tcp: connect: connection refused"
    THEN {"dial tcp", "connection refused"}
    ELSE IF err = "proxyconnect tcp: EOF" THEN {"proxy"}
    ELSE {}

\* io.ReadAll(resp.Body) of a response that is not 200
Bodies == {"", "quota exceeded"}

\* what one c.client.Do call yields: a transport error, or a response with
\* its status, its body when the status is not 200, and whether a 200 body
\* decodes
Outcomes ==
    { [err |-> e, code |-> 0, body |-> "", decodable |-> FALSE] : e \in DoErrors }
    \cup { [err |-> "", code |-> c, body |-> b, decodable |-> FALSE] :
               c \in {404, 429, 503}, b \in Bodies }
    \cup { [err |-> "", code |-> 200, body |-> "", decodable |-> d] : d \in BOOLEAN }

isNetworkError_None(err) == FALSE
isNetworkError_All(err) == TRUE
isNetworkError(err) == \E w \in Lexicon : w \in PhrasesIn(err)

MaxRetriesOf_OneMore(m) == (IF m <= 0 THEN DefaultMaxRetries ELSE m) + 1
MaxRetriesOf(m) == IF m <= 0 THEN DefaultMaxRetries ELSE m

\* url.Parse: the strings it rejects; it accepts "invalid-url" as a relative
\* reference
UnparsableURLs == {"://bad"}
Parses_All(u) == TRUE
Parses(u) == u \notin UnparsableURLs

\* random choice of a route: pick is the index the random source returns; the
\* transport is left as it is when the chosen string does not parse
setRandomProxy(pick) ==
    IF Len(proxyURLs) = 0 THEN "direct"
    ELSE IF Parses(proxyURLs[pick]) THEN proxyURLs[pick]
    ELSE transport

RotateProxy(pick) == IF Len(proxyURLs) <= 1 THEN transport ELSE setRandomProxy(pick)

\* resp.StatusCode == 429 || resp.StatusCode >= 500
RetryableStatus_5xx(code) == code >= 500
RetryableStatus(code) == code = 429 \/ code >= 500

\* attempt > 0 && len(c.proxyURLs) > 1
ShouldRotate_Never(a) == FALSE
ShouldRotate_First(a) == Len(proxyURLs) > 1
ShouldRotate(a) == a > 0 /\ Len(proxyURLs) > 1

\* fmt.Errorf("request failed after %d attempts: %w", maxRetries, lastErr)
Exhausted(n, e) == [e EXCEPT !.attempts = n]

Entry(route, what) == [route |-> route, what |-> what]

\* continue: the next iteration, or the end of the loop
Continue(e, entry) ==
    /\ attempt' = attempt + 1
    /\ lastErr' = e
    /\ hist' = Append(hist, entry)
    /\ IF attempt + 1 < MaxRetriesOf(maxRetries)
       THEN spc' = "loop" /\ sendErr' = sendErr
       ELSE spc' = "done" /\ sendErr' = Exhausted(MaxRetriesOf(maxRetries), e)

\* return nil, lastErr
Return(e, entry) ==
    /\ lastErr' = e
    /\ sendErr' = e
    /\ spc' = "done"
    /\ hist' = Append(hist, entry)
    /\ attempt' = attempt

\* the request body: for the internal-assist backend the envelope
\* { model, project, request } with the project of the client's own
\* configuration, for the other backends the request itself
Serialize_ProxyConfig(modelID) ==
    IF apiMode = "code_assist"
    THEN [sent |-> TRUE, model |-> modelID, project |-> gpProjectID]
    ELSE [sent |-> TRUE, model |-> "", project |-> ""]
Serialize(modelID) ==
    IF apiMode = "code_assist"
    THEN [sent |-> TRUE, model |-> modelID, project |-> cfgProject]
    ELSE [sent |-> TRUE, model |-> "", project |-> ""]

\* everything outside the client and the manager that a request leaves alone
nonSendVars == <<discVars, poolVars, streamVars, roleVars, pathVars, healthVars, gateVars,
                 convVars, raceVars, apiMode, cfgProject>>

\* sendRequestWithRetry up to its loop (client.go:141-191)
SendRequest(modelID) ==
    /\ running
    /\ spc \in {"idle", "done"}
    /\ envelope' = Serialize(modelID)
    /\ spc' = "loop"
    /\ attempt' = 0
    /\ lastErr' = NoErr
    /\ sendErr' = NoErr
    /\ hist' = <<>>
    /\ rotations' = 0
    /\ UNCHANGED <<authVars, chanVars, lastCall, waitVars, proxyVars, accessVars, clientVars>>
    /\ UNCHANGED nonSendVars

SendStart == SendRequest("gemini-2.5-pro")

\* one iteration of the loop (client.go:194-271)
SendAttempt(o, pick, refreshOK) ==
    /\ running
    /\ spc = "loop"
    /\ IF ShouldRotate(attempt) THEN pick \in DOMAIN proxyURLs ELSE pick = 1
    /\ LET route == IF ShouldRotate(attempt) THEN RotateProxy(pick) ELSE transport
           built == createRequest(refreshOK)
       IN
       /\ transport' = route
       /\ rotations' = IF ShouldRotate(attempt) THEN rotations + 1 ELSE rotations
       /\ tokenSource' = built.source
       /\ IF built.err # "" THEN
              Continue(Err(built.err, "", 0), Entry(route, "not built"))
          ELSE IF o.err # "" THEN
              IF Len(proxyURLs) > 1 /\ isNetworkError(o.err)
              THEN Continue(Err("request failed", o.err, 0), Entry(route, o.err))
              ELSE Return(Err("request failed", o.err, 0), Entry(route, o.err))
          ELSE IF o.code # 200 THEN
              IF RetryableStatus(o.code) /\ Len(proxyURLs) > 1
              THEN Continue(Err("API request failed with status", o.body, o.code), Entry(route, "status"))
              ELSE Return(Err("API request failed with status", o.body, o.code), Entry(route, "status"))
          ELSE IF ~o.decodable THEN
              Continue(Err("failed to decode response", "", 0), Entry(route, "undecodable"))
          ELSE
              /\ spc' = "done"
              /\ sendErr' = NoErr
              /\ hist' = Append(hist, Entry(route, "ok"))
              /\ UNCHANGED <<attempt, lastErr>>
    /\ UNCHANGED <<tokens, currentTokens, initialized, callbackPath, onTokenReceived>>
    /\ UNCHANGED <<chanVars, lastCall, waitVars, proxyVars, accessVars>>
    /\ UNCHANGED <<clientAuth, proxyURLs, maxRetries>>
    /\ UNCHANGED extVars

Attempt == \E o \in Outcomes, pick \in 1..(MaxRoutes + 1), refreshOK \in BOOLEAN :
               SendAttempt(o, pick, refreshOK)

ExpiredToken == [access |-> "B", expired |-> TRUE, origin |-> "loaded"]

\* NewGeminiClient over a route list, with no manager, a manager that loaded
\* nothing, or a manager initialized from an expired token
InitSend ==
    /\ tokens = <<>>
    /\ \/ clientAuth = FALSE /\ initialized = FALSE /\ currentTokens = NilToken
       \/ clientAuth = TRUE /\ initialized = FALSE /\ currentTokens = NilToken
       \/ clientAuth = TRUE /\ initialized = TRUE /\ currentTokens = ExpiredToken
    /\ tokenSource = currentTokens
    /\ onTokenReceived = FALSE
    /\ gpProjectID = ""
    /\ FlowIdle
    /\ proxyURLs \in Pools
    /\ transport \in (IF proxyURLs = <<>> THEN {"direct"} ELSE Range(proxyURLs))
    /\ maxRetries \in 0..MaxRetriesCfg
    /\ SendIdle
    /\ ExtIdle

\* SendStreamRequestRaw: one request, no loop; a 200 response is handed to
\* the caller unread
SendStreamRequestRaw(modelID, o, refreshOK) ==
    /\ running
    /\ spc \in {"idle", "done"}
    /\ envelope' = Serialize(modelID)
    /\ LET built == createRequest(refreshOK) IN
       /\ tokenSource' = built.source
       /\ hist' = <<Entry(transport, IF built.err # "" THEN "not built"
                                     ELSE IF o.err # "" THEN o.err
                                     ELSE IF o.code # 200 THEN "status"
                                     ELSE "ok")>>
       /\ sendErr' = IF built.err # "" THEN Err(built.err, "", 0)
                     ELSE IF o.err # "" THEN Err("stream request failed", o.err, 0)
                     ELSE IF o.code # 200
                          THEN Err("stream API request failed with status", o.body, o.code)
                     ELSE NoErr
    /\ lastErr' = sendErr'
    /\ spc' = "done"
    /\ attempt' = 0
    /\ rotations' = 0
    /\ UNCHANGED <<tokens, currentTokens, initialized, callbackPath, onTokenReceived>>
    /\ UNCHANGED <<chanVars, lastCall, waitVars, proxyVars, accessVars, clientVars>>
    /\ UNCHANGED nonSendVars

StreamRaw == \E o \in Outcomes, refreshOK \in BOOLEAN :
                 SendStreamRequestRaw("gemini-2.5-pro", o, refreshOK)

NextSend ==
    \/ SendStart
    \/ Attempt

\* streaming requests only
NextStreamRaw == StreamRaw

StreamRawSpec == InitSend /\ [][NextStreamRaw]_vars

SendSpec == InitSend /\ [][NextSend]_vars

\* every c.client.Do call returns: the transport answers, fails or times out
FairSendSpec == SendSpec /\ WF_vars(Attempt)

-----------------------------------------------------------------------------
(* Initialize over persisted token lists *)

BoundedSeq(S, n) == UNION { [1..k -> S] : k \in 0..n }

\* NewGoogleAuth with persisted tokens, no persistence callback
InitTokens ==
    /\ tokens \in BoundedSeq(PersistedEntries, MaxTokens)
    /\ currentTokens = NilToken
    /\ initialized = FALSE
    /\ tokenSource = NilToken
    /\ onTokenReceived = FALSE
    /\ gpProjectID = ""
    /\ FlowIdle
    /\ clientAuth = TRUE
    /\ proxyURLs = <<>>
    /\ transport = "direct"
    /\ maxRetries = DefaultMaxRetries
    /\ SendIdle
    /\ ExtIdle

NextInitialize ==
    \/ Initialize
    \/ Callback
    \/ TokenAccess

InitializeSpec == InitTokens /\ [][NextInitialize]_vars

-----------------------------------------------------------------------------
(* DiscoverProjectID: the load call and the onboarding loop *)

ErrNoValidToken == "no valid OAuth token available for project discovery"
ErrCallAPI == "failed to call API"
ErrAPIStatus == "API returned status"
ErrOnboardStatus == "onboard API returned status"
ErrCallOnboard == "failed to call onboard API"
ErrOnboardTimeout == "onboarding process timed out"
ErrCouldNotDiscover == "could not discover a valid Google Cloud Project ID"

ProjectIDs == {"123456789012", "987654321098"}

\* what callCodeAssistAPI meets: a transport error, a non-200 status, or a
\* 200 whose body holds a project id or none
LoadAnswers ==
    { [err |-> e, id |-> ""] : e \in {ErrCallAPI, ErrAPIStatus} }
    \cup { [err |-> "", id |-> p] : p \in ProjectIDs \cup {""} }

\* what callOnboardAPI meets: a non-200 status, or a 200 with the done flag
\* and the assigned id, either of which may be missing
OnboardAnswers ==
    { [err |-> e, done |-> FALSE, id |-> ""] : e \in {ErrCallOnboard, ErrOnboardStatus} }
    \cup { [err |-> "", done |-> d, id |-> p] : d \in BOOLEAN, p \in ProjectIDs \cup {""} }

\* callOnboardAPI: the id only when the answer is done and holds one
callOnboardAPI_IgnoreDone(a) ==
    IF a.err # "" THEN [err |-> a.err, id |-> ""]
    ELSE [err |-> "", id |-> a.id]
callOnboardAPI_StatusPending(a) ==
    IF a.err = ErrOnboardStatus THEN [err |-> "", id |-> ""]
    ELSE IF a.err # "" THEN [err |-> a.err, id |-> ""]
    ELSE IF a.done /\ a.id # "" THEN [err |-> "", id |-> a.id]
    ELSE [err |-> "", id |-> ""]
callOnboardAPI(a) ==
    IF a.err # "" THEN [err |-> a.err, id |-> ""]
    ELSE IF a.done /\ a.id # "" THEN [err |-> "", id |-> a.id]
    ELSE [err |-> "", id |-> ""]

\* err == nil && projectID != "" after the load call
LoadSettles_Never(a) == FALSE
LoadSettles(a) == a.err = "" /\ a.id # ""

DiscoverStart ==
    /\ dpc \in {"idle", "done"}
    /\ loadCalls' = 0
    /\ onboardCalls' = 0
    /\ backoffs' = 0
    /\ incomplete' = 0
    /\ IF Valid(currentTokens)
       THEN dpc' = "load" /\ discResult' = NoDiscResult
       ELSE dpc' = "done" /\ discResult' = [id |-> "", err |-> ErrNoValidToken, cause |-> ""]
    /\ UNCHANGED <<authVars, chanVars, lastCall, waitVars, proxyVars, accessVars>>
    /\ UNCHANGED <<clientVars, sendVars, poolVars, streamVars, roleVars, lateVars>>

\* the loadCodeAssist call of DiscoverProjectID (auth.go:491-500)
LoadCall(a) ==
    /\ dpc = "load"
    /\ loadCalls' = loadCalls + 1
    /\ IF LoadSettles(a)
       THEN dpc' = "done" /\ discResult' = [id |-> a.id, err |-> "", cause |-> ""]
       ELSE dpc' = "tiers" /\ discResult' = discResult
    /\ UNCHANGED <<onboardCalls, backoffs, incomplete>>
    /\ UNCHANGED <<authVars, chanVars, lastCall, waitVars, proxyVars, accessVars>>
    /\ UNCHANGED <<clientVars, sendVars, poolVars, streamVars, roleVars, lateVars>>

\* the loadCodeAssist call that opens onboardUser; its answer is dropped
TiersCall(a) ==
    /\ dpc = "tiers"
    /\ loadCalls' = loadCalls + 1
    /\ dpc' = "onboard"
    /\ UNCHANGED <<onboardCalls, backoffs, incomplete, discResult>>
    /\ UNCHANGED <<authVars, chanVars, lastCall, waitVars, proxyVars, accessVars>>
    /\ UNCHANGED <<clientVars, sendVars, poolVars, streamVars, roleVars, lateVars>>

\* one callOnboardAPI of the loop; the loop variable i equals backoffs
OnboardCall(a) ==
    /\ dpc = "onboard"
    /\ onboardCalls' = onboardCalls + 1
    /\ LET r == callOnboardAPI(a) IN
       IF r.err # "" THEN
           /\ dpc' = "done"
           /\ discResult' = [id |-> "", err |-> ErrCouldNotDiscover, cause |-> r.err]
           /\ incomplete' = incomplete
       ELSE IF r.id # "" THEN
           /\ dpc' = "done"
           /\ discResult' = [id |-> r.id, err |-> "", cause |-> ""]
           /\ incomplete' = incomplete
       ELSE
           /\ dpc' = "sleep"
           /\ discResult' = discResult
           /\ incomplete' = incomplete + 1
    /\ UNCHANGED <<loadCalls, backoffs>>
    /\ UNCHANGED <<authVars, chanVars, lastCall, waitVars, proxyVars, accessVars>>
    /\ UNCHANGED <<clientVars, sendVars, poolVars, streamVars, roleVars, lateVars>>

\* time.Sleep(2 * time.Second), i++ and the loop test
Backoff ==
    /\ dpc = "sleep"
    /\ backoffs' = backoffs + 1
    /\ IF backoffs + 1 < MaxOnboardAttempts
       THEN dpc' = "onboard" /\ discResult' = discResult
       ELSE /\ dpc' = "done"
            /\ discResult' = [id |-> "", err |-> ErrCouldNotDiscover, cause |-> ErrOnboardTimeout]
    /\ UNCHANGED <<loadCalls, onboardCalls, incomplete>>
    /\ UNCHANGED <<authVars, chanVars, lastCall, waitVars, proxyVars, accessVars>>
    /\ UNCHANGED <<clientVars, sendVars, poolVars, streamVars, roleVars, lateVars>>

Load == \E a \in LoadAnswers : LoadCall(a)
Tiers == \E a \in LoadAnswers : TiersCall(a)
Onboard == \E a \in OnboardAnswers : OnboardCall(a)

\* a manager holding no token, an expired one or a live one
InitDiscovery ==
    /\ tokens = <<>>
    /\ currentTokens \in {NilToken, ExpiredToken} \cup ExchangeTokens
    /\ initialized = FALSE
    /\ tokenSource = NilToken
    /\ onTokenReceived = FALSE
    /\ gpProjectID = ""
    /\ FlowIdle
    /\ clientAuth = TRUE
    /\ proxyURLs = <<>>
    /\ transport = "direct"
    /\ maxRetries = DefaultMaxRetries
    /\ SendIdle
    /\ ExtIdle

NextDiscovery ==
    \/ DiscoverStart
    \/ Load
    \/ Tiers
    \/ Onboard
    \/ Backoff

DiscoverySpec == InitDiscovery /\ [][NextDiscovery]_vars

-----------------------------------------------------------------------------
(* The proxy pool: NewGeminiClient, SetProxy, SetProxyList, RotateProxy *)

ErrInvalidProxyURL == "invalid proxy URL"
ErrNoValidProxies == "no valid proxy URLs provided"

RouteStrings == {"http://p1:8080", "http://p2:8080", "invalid-url", "://bad"}
RouteLists == UNION { [1..n -> RouteStrings] : n \in 0..MaxList }

PoolOp(name, arg) == [name |-> name, arg |-> arg, active |-> transport]

\* the error of setRandomProxy for the index the random source returns
setRandomProxyErr(pick) ==
    IF Len(proxyURLs) > 0 /\ ~Parses(proxyURLs[pick]) THEN ErrInvalidProxyURL ELSE ""

SetProxy(u) ==
    /\ poolOp' = PoolOp("SetProxy", <<u>>)
    /\ IF u = "" THEN
           /\ transport' = "direct"
           /\ proxyURLs' = <<>>
           /\ poolErr' = ""
       ELSE IF ~Parses(u) THEN
           /\ poolErr' = ErrInvalidProxyURL
           /\ UNCHANGED <<transport, proxyURLs>>
       ELSE
           /\ transport' = u
           /\ proxyURLs' = <<u>>
           /\ poolErr' = ""
    /\ UNCHANGED <<authVars, chanVars, lastCall, waitVars, proxyVars, accessVars>>
    /\ UNCHANGED <<clientAuth, maxRetries, sendVars, discVars, streamVars, roleVars, lateVars>>

SetProxyList(list, pick) ==
    /\ poolOp' = PoolOp("SetProxyList", list)
    /\ LET validProxies == SelectSeq(list, Parses) IN
       IF list = <<>> THEN
           /\ pick = 1
           /\ transport' = "direct"
           /\ proxyURLs' = <<>>
           /\ poolErr' = ""
       ELSE IF validProxies = <<>> THEN
           /\ pick = 1
           /\ poolErr' = ErrNoValidProxies
           /\ UNCHANGED <<transport, proxyURLs>>
       ELSE
           /\ pick \in DOMAIN validProxies
           /\ proxyURLs' = validProxies
           /\ transport' = validProxies[pick]
           /\ poolErr' = ""
    /\ UNCHANGED <<authVars, chanVars, lastCall, waitVars, proxyVars, accessVars>>
    /\ UNCHANGED <<clientAuth, maxRetries, sendVars, discVars, streamVars, roleVars, lateVars>>

\* a call of RotateProxy from outside Send
RotateProxyCall(pick) ==
    /\ poolOp' = PoolOp("RotateProxy", <<>>)
    /\ IF Len(proxyURLs) <= 1 THEN pick = 1 ELSE pick \in DOMAIN proxyURLs
    /\ transport' = RotateProxy(pick)
    /\ poolErr' = IF Len(proxyURLs) <= 1 THEN "" ELSE setRandomProxyErr(pick)
    /\ UNCHANGED proxyURLs
    /\ UNCHANGED <<authVars, chanVars, lastCall, waitVars, proxyVars, accessVars>>
    /\ UNCHANGED <<clientAuth, maxRetries, sendVars, discVars, streamVars, roleVars, lateVars>>

SetSingle == \E u \in RouteStrings \cup {""} : SetProxy(u)
SetList == \E list \in RouteLists, pick \in 1..(MaxList + 1) : SetProxyList(list, pick)
Rotate == \E pick \in 1..(MaxList + 1) : RotateProxyCall(pick)

\* NewGeminiClient over the configured list: the list is copied as it is and
\* setRandomProxy's error is dropped
InitPool ==
    /\ tokens = <<>>
    /\ currentTokens = NilToken
    /\ initialized = FALSE
    /\ tokenSource = NilToken
    /\ onTokenReceived = FALSE
    /\ gpProjectID = ""
    /\ FlowIdle
    /\ clientAuth = FALSE
    /\ proxyURLs \in RouteLists
    /\ transport \in IF proxyURLs = <<>> THEN {"direct"}
                    ELSE { IF Parses(proxyURLs[i]) THEN proxyURLs[i] ELSE "direct" :
                             i \in DOMAIN proxyURLs }
    /\ maxRetries = DefaultMaxRetries
    /\ SendIdle
    /\ ExtIdle

NextPool ==
    \/ SetSingle
    \/ SetList
    \/ Rotate

PoolSpec == InitPool /\ [][NextPool]_vars

-----------------------------------------------------------------------------
(* Streaming: SendOpenAIStreamRequest, SendStreamRequest, SendStreamRequestRaw
   and the gateway's handleOpenAIStreamResponse *)

\* everything outside the streaming state
baseVars == <<authVars, chanVars, lastCall, waitVars, proxyVars, accessVars, clientVars, sendVars>>

\* the prefix a line must have to be taken as a data frame
DataPrefix == "data: "

\* payloads: a chunk with text, a chunk with neither text nor finish reason,
\* a chunk with a finish reason only, a payload that is not JSON, no payload
Payloads == {"{A}", "{}", "{F}", "{bad", ""}

\* lines the scanner can hand over: data frames of every payload, a data
\* field written without the space, and the blank line between frames
Lines ==
    {[prefix |-> DataPrefix, data |-> d] : d \in Payloads}
        \cup {[prefix |-> "data:", data |-> "{A}"], [prefix |-> "", data |-> ""]}

\* json.Unmarshal that accepts everything
Decodes_Any(data) == TRUE

\* json.Unmarshal of the payload succeeds
Decodes(data) == data \in {"{A}", "{}", "{F}"}

\* the chunk json.Unmarshal yields
Decode(data) ==
    CASE data = "{A}" -> [content |-> "A", finish |-> ""]
      [] data = "{F}" -> [content |-> "", finish |-> "STOP"]
      [] OTHER        -> [content |-> "", finish |-> ""]

\* the line reaches the callback
IsDataFrame(line) ==
    /\ line.prefix = DataPrefix
    /\ line.data # ""
    /\ Decodes(line.data)

convertFinishReason(reason) ==
    CASE reason = "" -> ""
      [] reason = "STOP" -> "stop"
      [] reason = "MAX_TOKENS" -> "length"
      [] reason \in {"SAFETY", "RECITATION"} -> "content_filter"
      [] OTHER -> "stop"

\* one flag for all streams
RoleFlag_Shared(s) == \E t \in Streams : roleSent[t]

\* the flag the caller of GeminiStreamToOpenAI passes for stream s
RoleFlag(s) == roleSent[s]

\* the converted chunk; the flag is set by the call
GeminiStreamToOpenAI(chunk, flag) ==
    [role    |-> IF ~flag THEN "assistant" ELSE "",
     content |-> chunk.content,
     finish  |-> convertFinishReason(chunk.finish)]

\* the per-line select never sees the cancellation
CtxSeen_Never == FALSE

\* the per-line select on ctx.Done()
CtxSeen == ctxDone

Res(kind, cause) == [kind |-> kind, cause |-> cause]

OpenOutcomes == {"ok", "auth", "network", "status"}

\* SendOpenAIStreamRequest up to the response headers
StreamOpen(outcome) ==
    /\ stpc = "idle"
    /\ roleSent' = [roleSent EXCEPT !["s1"] = FALSE]
    /\ produced' = [produced EXCEPT !["s1"] = <<>>]
    /\ IF outcome = "auth" THEN
            /\ streamRes' = Res("auth", "")
            /\ stpc' = "done"
            /\ UNCHANGED doCalls
       ELSE IF ctxDone THEN
            \* the transport returns ctx.Err() before dialling
            /\ streamRes' = Res("request", "ctx")
            /\ stpc' = "done"
            /\ UNCHANGED doCalls
       ELSE
            /\ doCalls' = doCalls + 1
            /\ IF outcome = "ok"
               THEN /\ stpc' = "scan"
                    /\ UNCHANGED streamRes
               ELSE /\ stpc' = "done"
                    /\ streamRes' = Res(IF outcome = "status" THEN "status" ELSE "request", outcome)
    /\ UNCHANGED <<ctxDone, received, delivered, lateDeliveries, wire>>
    /\ UNCHANGED <<baseVars, discVars, poolVars, lateVars>>

\* scanner.Scan() returns a line
StreamScanLine(line) ==
    /\ stpc = "scan"
    /\ Len(received) < MaxFrames
    /\ received' = Append(received, line)
    /\ stpc' = "check"
    /\ UNCHANGED <<ctxDone, delivered, streamRes, doCalls, lateDeliveries, wire>>
    /\ UNCHANGED <<baseVars, discVars, poolVars, roleVars, lateVars>>

\* scanner.Scan() returns false at the end of the body
StreamScanEOF ==
    /\ stpc = "scan"
    /\ streamRes' = Res("nil", "")
    /\ stpc' = "done"
    /\ UNCHANGED <<ctxDone, received, delivered, doCalls, lateDeliveries, wire>>
    /\ UNCHANGED <<baseVars, discVars, poolVars, roleVars, lateVars>>

\* what scanner.Err() can hold: a broken connection, a line over the
\* scanner's token limit, and the context's error once it is cancelled
ReadErrors == {"upstream", "toolong"} \cup (IF ctxDone THEN {"ctx"} ELSE {})

\* scanner.Scan() returns false with an error
StreamScanError(cause) ==
    /\ stpc = "scan"
    /\ cause \in ReadErrors
    /\ streamRes' = Res("read", cause)
    /\ stpc' = "done"
    /\ UNCHANGED <<ctxDone, received, delivered, doCalls, lateDeliveries, wire>>
    /\ UNCHANGED <<baseVars, discVars, poolVars, roleVars, lateVars>>

\* the select on ctx.Done() and the parsing of the line
StreamCheck ==
    /\ stpc = "check"
    /\ IF CtxSeen THEN
            /\ streamRes' = Res("ctx", "")
            /\ stpc' = "done"
       ELSE
            /\ stpc' = IF IsDataFrame(received[Len(received)]) THEN "deliver" ELSE "scan"
            /\ UNCHANGED streamRes
    /\ UNCHANGED <<ctxDone, received, delivered, doCalls, lateDeliveries, wire>>
    /\ UNCHANGED <<baseVars, discVars, poolVars, roleVars, lateVars>>

\* the callback of handleOpenAIStreamResponse: its error, "" for nil
HandlerCallback(out, writeOK) ==
    IF ctxDone THEN "ctx"
    ELSE IF out.content = "" /\ out.finish = "" THEN ""
    ELSE IF writeOK THEN ""
    ELSE "write"

\* the frame the callback puts on the wire
HandlerWrites(out, writeOK) ==
    /\ ~ctxDone
    /\ ~(out.content = "" /\ out.finish = "")
    /\ writeOK

\* a SendStreamRequest that ignores what the callback returns
CallbackFails_Never(err) == FALSE

\* if err := callback(&chunk); err != nil
CallbackFails(err) == err # ""

\* callback(&chunk): the conversion of SendOpenAIStreamRequest, then the
\* gateway's callback
StreamDeliver(writeOK) ==
    /\ stpc = "deliver"
    /\ delivered' = Append(delivered, Len(received))
    /\ lateDeliveries' = IF ctxDone THEN lateDeliveries + 1 ELSE lateDeliveries
    /\ LET chunk == Decode(received[Len(received)].data)
           out   == GeminiStreamToOpenAI(chunk, RoleFlag("s1"))
           err   == HandlerCallback(out, writeOK)
       IN  /\ produced' = [produced EXCEPT !["s1"] = Append(@, out)]
           /\ roleSent' = [roleSent EXCEPT !["s1"] = TRUE]
           /\ wire' = IF HandlerWrites(out, writeOK) THEN Append(wire, "chunk") ELSE wire
           /\ IF CallbackFails(err)
              THEN /\ streamRes' = Res("callback", err)
                   /\ stpc' = "done"
              ELSE /\ stpc' = "scan"
                   /\ UNCHANGED streamRes
    /\ UNCHANGED <<ctxDone, received, doCalls>>
    /\ UNCHANGED <<baseVars, discVars, poolVars, lateVars>>

\* the inbound request's context is cancelled
StreamCancel ==
    /\ ~ctxDone
    /\ stpc \notin {"done", "closed"}
    /\ ctxDone' = TRUE
    /\ UNCHANGED <<stpc, received, delivered, streamRes, doCalls, lateDeliveries, wire>>
    /\ UNCHANGED <<baseVars, discVars, poolVars, roleVars, lateVars>>

\* handleOpenAIStreamResponse after SendOpenAIStreamRequest has returned
HandlerFinish ==
    /\ stpc = "done"
    /\ wire' = Append(wire, IF streamRes.kind = "nil" THEN "[DONE]" ELSE "error")
    /\ stpc' = "closed"
    /\ UNCHANGED <<ctxDone, received, delivered, streamRes, doCalls, lateDeliveries>>
    /\ UNCHANGED <<baseVars, discVars, poolVars, roleVars, lateVars>>

Open == \E outcome \in OpenOutcomes : StreamOpen(outcome)
ScanLine == \E line \in Lines : StreamScanLine(line)
ScanError == \E cause \in {"upstream", "toolong", "ctx"} : StreamScanError(cause)
Deliver == \E writeOK \in BOOLEAN : StreamDeliver(writeOK)

\* an authorized client with no proxy and no stream opened
InitStream ==
    /\ tokens = <<>>
    /\ currentTokens = NilToken
    /\ initialized = FALSE
    /\ tokenSource = NilToken
    /\ onTokenReceived = FALSE
    /\ gpProjectID = ""
    /\ FlowIdle
    /\ clientAuth = FALSE
    /\ proxyURLs = <<>>
    /\ transport = "direct"
    /\ maxRetries = DefaultMaxRetries
    /\ SendIdle
    /\ ExtIdle

NextStream ==
    \/ Open
    \/ ScanLine
    \/ StreamScanEOF
    \/ ScanError
    \/ StreamCheck
    \/ Deliver
    \/ StreamCancel
    \/ HandlerFinish

StreamSpec == InitStream /\ [][NextStream]_vars

\* chunks of the backend: text, nothing, finish reason only
BackendChunks == {Decode(d) : d \in {"{A}", "{}", "{F}"}}

\* SendOpenAIStreamRequest starts a new stream in slot s
OpenStream(s) ==
    /\ produced[s] # <<>>
    /\ roleSent' = [roleSent EXCEPT ![s] = FALSE]
    /\ produced' = [produced EXCEPT ![s] = <<>>]
    /\ UNCHANGED <<baseVars, discVars, poolVars, streamVars, lateVars>>

\* the callback of stream s converts one chunk
ConvertChunk(s, chunk) ==
    /\ Len(produced[s]) < MaxFrames
    /\ produced' = [produced EXCEPT ![s] = Append(@, GeminiStreamToOpenAI(chunk, RoleFlag(s)))]
    /\ roleSent' = [roleSent EXCEPT ![s] = TRUE]
    /\ UNCHANGED <<baseVars, discVars, poolVars, streamVars, lateVars>>

NewStream == \E s \in Streams : OpenStream(s)
Convert == \E s \in Streams, chunk \in BackendChunks : ConvertChunk(s, chunk)

NextConvert ==
    \/ NewStream
    \/ Convert

ConvertSpec == InitStream /\ [][NextConvert]_vars

-----------------------------------------------------------------------------
(* generateCallbackPath and the routing of callbacks between managers *)

\* everything outside the managers' bindings
nonPathVars == <<authVars, chanVars, lastCall, waitVars, proxyVars, accessVars, clientVars,
                 sendVars, discVars, poolVars, streamVars, roleVars, healthVars, gateVars,
                 convVars, endVars>>

CallbackPrefix == "/oauth/callback/"

\* client identifiers: the built-in one, the one of the tests, another
\* client of the same Google project, one of another project, an identifier of
\* exactly PathChars characters, shorter ones, and one that starts with the
\* hash of a shorter one
ClientIDs ==
    {OAuthClientID,
     "681255809395-oo8ft2oprdrnp9e3aqf6av3hmdib135j",
     "681255809395-other",
     "123456789012-abc",
     "123456789012",
     "12345678901",
     "short",
     "",
     "4f09daa9d95b-x"}

\* hex.EncodeToString(md5.Sum([]byte(clientID))) of the short identifiers
MD5Hex(clientID) ==
    CASE clientID = "short"       -> "4f09daa9d95bcb166a302407a0e0babe"
      [] clientID = ""            -> "d41d8cd98f00b204e9800998ecf8427e"
      [] clientID = "12345678901" -> "bfd81ee3ed27ad31c95ca75e21365973"

\* a path made of the whole identifier
generateCallbackPath_Whole(clientID) == CallbackPrefix \o clientID

generateCallbackPath(clientID) ==
    IF Len(clientID) < PathChars
    THEN CallbackPrefix \o SubSeq(MD5Hex(clientID), 1, PathChars)
    ELSE CallbackPrefix \o SubSeq(clientID, 1, PathChars)

\* g.generateCallbackPath(clientID) on manager m
Generate(m, clientID) ==
    /\ binding' = [binding EXCEPT ![m] = clientID]
    /\ mgrPath' = [mgrPath EXCEPT ![m] = generateCallbackPath(clientID)]
    /\ UNCHANGED lastRoute
    /\ UNCHANGED nonPathVars

\* a callback request arrives at every manager's handleOAuthCallback; those
\* whose path check passes take it
RouteCallback(path) ==
    /\ lastRoute' = [path |-> path, takenBy |-> {m \in Managers : path = mgrPath[m]}]
    /\ UNCHANGED <<binding, mgrPath>>
    /\ UNCHANGED nonPathVars

\* paths a callback request can carry
RequestPaths == {generateCallbackPath(id) : id \in ClientIDs} \cup {"/wrong/path"}

GenerateCallbackPath == \E m \in Managers, clientID \in ClientIDs : Generate(m, clientID)
Route == \E path \in RequestPaths : RouteCallback(path)

\* two managers, each bound by generateCallbackPath to some identifier
InitPath ==
    /\ tokens = <<>>
    /\ currentTokens = NilToken
    /\ initialized = FALSE
    /\ tokenSource = NilToken
    /\ onTokenReceived = FALSE
    /\ gpProjectID = ""
    /\ FlowIdle
    /\ clientAuth = FALSE
    /\ proxyURLs = <<>>
    /\ transport = "direct"
    /\ maxRetries = DefaultMaxRetries
    /\ SendIdle
    /\ DiscIdle /\ PoolIdle /\ StreamIdle
    /\ lastHealth = NoHealth
    /\ GateIdle
    /\ ConvIdle
    /\ EndIdle
    /\ binding \in [Managers -> ClientIDs]
    /\ mgrPath = [m \in Managers |-> generateCallbackPath(binding[m])]
    /\ lastRoute = NoRoute

NextPath ==
    \/ GenerateCallbackPath
    \/ Route

PathSpec == InitPath /\ [][NextPath]_vars

-----------------------------------------------------------------------------
(* Health *)

ErrTokenInvalid == "token is invalid or expired"

\* a refreshed token that is within its expiry margin on arrival
StaleToken == [access |-> "R", expired |-> TRUE, origin |-> "refreshed"]

RefreshOutcomes == {"ok", "fail", "stale"}

\* g.tokenSource.Token() with a refresh that may hand back a stale token
SourceTokenOf(refresh) ==
    IF refresh = "stale" /\ ~Valid(tokenSource)
    THEN [err |-> "", token |-> StaleToken]
    ELSE SourceToken(refresh = "ok")

\* a Health that takes whatever token it gets
HealthValid_Any(t) == TRUE

\* token.Valid() in Health
HealthValid(t) == Valid(t)

\* Health: outcome "panic" is the call of Token() on a nil token source
HealthResult(refresh) ==
    IF ~initialized THEN [outcome |-> "error", err |-> ErrNotInitialized, token |-> NilToken]
    ELSE IF tokenSource = NilToken THEN [outcome |-> "panic", err |-> "", token |-> NilToken]
    ELSE LET r == SourceTokenOf(refresh) IN
         IF r.err # "" THEN [outcome |-> "error", err |-> ErrGetToken, token |-> NilToken]
         ELSE IF ~HealthValid(r.token) THEN [outcome |-> "error", err |-> ErrTokenInvalid, token |-> r.token]
         ELSE [outcome |-> "nil", err |-> "", token |-> r.token]

Health(refresh) ==
    /\ running
    /\ lastHealth' = HealthResult(refresh)
    /\ tokenSource' = IF initialized /\ tokenSource # NilToken /\ SourceTokenOf(refresh).err = ""
                      THEN SourceTokenOf(refresh).token
                      ELSE tokenSource
    /\ UNCHANGED <<tokens, currentTokens, initialized, callbackPath, onTokenReceived>>
    /\ UNCHANGED <<chanVars, lastCall, waitVars, proxyVars, accessVars, clientVars, sendVars>>
    /\ UNCHANGED <<discVars, poolVars, streamVars, roleVars, pathVars, gateVars, convVars, endVars>>

HealthCheck == \E refresh \in RefreshOutcomes : Health(refresh)

NextHealth ==
    \/ Initialize
    \/ Callback
    \/ TokenAccess
    \/ HealthCheck

HealthSpec == InitTokens /\ [][NextHealth]_vars

-----------------------------------------------------------------------------
(* The gateway's authMiddleware *)

\* everything outside the gateway's key check
nonGateVars == <<authVars, chanVars, lastCall, waitVars, proxyVars, accessVars, clientVars,
                 sendVars, discVars, poolVars, streamVars, roleVars, pathVars, healthVars,
                 convVars, endVars>>

\* keys as the configuration can hold them: GEMINI_API_KEYS is split at
\* commas and trimmed, so "k1," gives the list "k1", ""
KeyStrings == {"k1", "k2", ""}
KeyLists == UNION {[1..n -> KeyStrings] : n \in 0..MaxKeys}

GatePaths == {"/health", "/oauth/callback/681255809395", "/v1/chat/completions"}

\* what a client can put in a header or in the key query parameter
PlaceValues == {Absent, "k1", "bad"}
AuthorizationValues == {Absent, "Bearer k1", "Bearer bad", "Bearer ", "k1"}

GateRequests ==
    [path : GatePaths, authorization : AuthorizationValues, xApiKey : PlaceValues,
     xGoogApiKey : PlaceValues, key : PlaceValues]

\* r.Header.Get and r.URL.Query().Get: "" for a value that is not there
Get(v) == IF v = Absent THEN "" ELSE v

HasPrefix(str, prefix) ==
    Len(str) >= Len(prefix) /\ SubSeq(str, 1, Len(prefix)) = prefix

TrimPrefix(str, prefix) ==
    IF HasPrefix(str, prefix) THEN SubSeq(str, Len(prefix) + 1, Len(str)) ELSE str

\* for _, configKey := range s.config.APIKeys { if v == configKey
IsConfiguredKey(v) == \E i \in DOMAIN apiKeys : v = apiKeys[i]

\* whether authMiddleware calls next.ServeHTTP
authMiddleware(req) ==
    \/ Len(apiKeys) = 0
    \/ req.path = "/health"
    \/ HasPrefix(req.path, "/oauth/")
    \/ /\ Get(req.authorization) # ""
       /\ HasPrefix(Get(req.authorization), "Bearer ")
       /\ IsConfiguredKey(TrimPrefix(Get(req.authorization), "Bearer "))
    \/ IsConfiguredKey(Get(req.xApiKey))
    \/ IsConfiguredKey(Get(req.xGoogApiKey))
    \/ IsConfiguredKey(Get(req.key))

\* one request through the middleware
ServeRequest(req) ==
    /\ gwReq' = req
    /\ gwRes' = IF authMiddleware(req) THEN "forwarded" ELSE "401"
    /\ UNCHANGED apiKeys
    /\ UNCHANGED nonGateVars

Serve == \E req \in GateRequests : ServeRequest(req)

\* a server made with some configured key list
InitGate ==
    /\ tokens = <<>>
    /\ currentTokens = NilToken
    /\ initialized = FALSE
    /\ tokenSource = NilToken
    /\ onTokenReceived = FALSE
    /\ gpProjectID = ""
    /\ FlowIdle
    /\ clientAuth = FALSE
    /\ proxyURLs = <<>>
    /\ transport = "direct"
    /\ maxRetries = DefaultMaxRetries
    /\ SendIdle
    /\ DiscIdle /\ PoolIdle /\ StreamIdle /\ PathIdle
    /\ lastHealth = NoHealth
    /\ ConvIdle
    /\ EndIdle
    /\ apiKeys \in KeyLists
    /\ gwReq = NoGateRequest
    /\ gwRes = "none"

NextGate ==
    \/ Serve

GateSpec == InitGate /\ [][NextGate]_vars

-----------------------------------------------------------------------------
(* FormatConverter: OpenAIToGeminiRequest *)

\* everything outside the converter call
nonConvVars == <<authVars, chanVars, lastCall, waitVars, proxyVars, accessVars, clientVars,
                 sendVars, discVars, poolVars, streamVars, roleVars, pathVars, healthVars,
                 gateVars, endVars>>

\* every variable but the converter's, in its initial state
ConvBase ==
    /\ tokens = <<>>
    /\ currentTokens = NilToken
    /\ initialized = FALSE
    /\ tokenSource = NilToken
    /\ onTokenReceived = FALSE
    /\ gpProjectID = ""
    /\ FlowIdle
    /\ clientAuth = FALSE
    /\ proxyURLs = <<>>
    /\ transport = "direct"
    /\ maxRetries = DefaultMaxRetries
    /\ SendIdle
    /\ DiscIdle /\ PoolIdle /\ StreamIdle /\ PathIdle /\ GateIdle
    /\ lastHealth = NoHealth
    /\ EndIdle

\* roles as clients write them
MsgRoles == {"user", "assistant", "System", "tool"}
MsgTexts == {"", "a", "b"}
Messages == [role : MsgRoles, content : MsgTexts]
MessageLists == UNION {[1..n -> Messages] : n \in 0..MaxMsgs}

\* the parts of req.SystemInstruction, <<>> when the field is nil
ExplicitParts == {<<>>, <<"x">>, <<"x", "y">>}

\* strings.ToLower on the roles
ToLower(role) == IF role = "System" THEN "system" ELSE role

\* the explicit parts first
SystemParts_ExplicitFirst(embedded, explicit) == explicit \o embedded

\* systemParts: the embedded system texts, then req.SystemInstruction.Parts
SystemParts(embedded, explicit) == embedded \o explicit

\* a merge that keeps the first text of a run only
MergeText_KeepFirst(cur, next) == cur

\* current.Parts[0].Text += "\n" + next.Parts[0].Text
MergeText(cur, next) == cur \o "\n" \o next

\* the loop of mergeConsecutiveMessages from index i on
RECURSIVE MergeFrom(_, _, _, _)
MergeFrom(contents, i, current, merged) ==
    IF i > Len(contents) THEN Append(merged, current)
    ELSE LET next == contents[i] IN
         IF current.role = next.role
         THEN MergeFrom(contents, i + 1,
                        IF Len(current.parts) > 0 /\ Len(next.parts) > 0
                        THEN [current EXCEPT !.parts[1] = MergeText(@, next.parts[1])]
                        ELSE current,
                        merged)
         ELSE MergeFrom(contents, i + 1, next, Append(merged, current))

mergeConsecutiveMessages(contents) ==
    IF Len(contents) < 2 THEN contents
    ELSE MergeFrom(contents, 2, contents[1], <<>>)

IsSystem(msg) == ToLower(msg.role) = "system"
IsTurn(msg) == ToLower(msg.role) \in {"user", "assistant"}

\* the Gemini content of a user or assistant message
ToContent(msg) ==
    [role  |-> IF ToLower(msg.role) = "user" THEN "user" ELSE "model",
     parts |-> <<msg.content>>]

RECURSIVE MapSeq(_, _)
MapSeq(Op(_), seq) ==
    IF seq = <<>> THEN <<>> ELSE <<Op(Head(seq))>> \o MapSeq(Op, Tail(seq))

SystemText(msg) == msg.content

\* the request OpenAIToGeminiRequest builds; systemInstruction <<>> is nil
OpenAIToGeminiRequest(req) ==
    LET embedded    == MapSeq(SystemText, SelectSeq(req.messages, IsSystem))
        systemParts == SystemParts(embedded, req.systemInstruction)
        nonSystem   == SelectSeq(req.messages, LAMBDA m : ~IsSystem(m))
        conversation == MapSeq(ToContent, SelectSeq(nonSystem, IsTurn))
    IN  [systemInstruction |-> systemParts,
         contents          |-> mergeConsecutiveMessages(conversation)]

\* one call of OpenAIToGeminiRequest
ConvertRequest ==
    /\ convOut = NoValue
    /\ convOut' = OpenAIToGeminiRequest(convIn)
    /\ UNCHANGED convIn
    /\ UNCHANGED nonConvVars

\* a unified request drawn from the bounded inputs
InitRequest ==
    /\ ConvBase
    /\ convIn \in [messages : MessageLists, systemInstruction : ExplicitParts]
    /\ convOut = NoValue

NextRequest ==
    \/ ConvertRequest

RequestSpec == InitRequest /\ [][NextRequest]_vars

-----------------------------------------------------------------------------
(* FormatConverter: GeminiToOpenAIResponse *)

ModelIDs == {"gemini-2.5-pro", "gemini-pro", "custom-model"}

PartLists == UNION {[1..n -> MsgTexts] : n \in 0..MaxParts}
Candidates == [parts : PartLists, finishReason : {"STOP"}]
CandidateLists == UNION {[1..n -> Candidates] : n \in 0..MaxCands}

\* the first part alone
JoinText_Head(parts) == IF parts = <<>> THEN "" ELSE Head(parts)

\* strings.Join(textParts, "") over the parts with text
RECURSIVE JoinText(_)
JoinText(parts) ==
    IF parts = <<>> THEN ""
    ELSE (IF Head(parts) # "" THEN Head(parts) ELSE "") \o JoinText(Tail(parts))

\* the response GeminiToOpenAIResponse builds: only Candidates[0] is read
GeminiToOpenAIResponse(geminiResp, model) ==
    [model        |-> model,
     role         |-> "assistant",
     content      |-> IF Len(geminiResp) > 0 THEN JoinText(geminiResp[1].parts) ELSE "",
     finishReason |-> IF Len(geminiResp) > 0
                      THEN convertFinishReason(geminiResp[1].finishReason)
                      ELSE ""]

\* the conversion at the end of SendOpenAIRequest, for the request's model
ConvertResponse ==
    /\ convOut = NoValue
    /\ convOut' = GeminiToOpenAIResponse(convIn.candidates, convIn.model)
    /\ UNCHANGED convIn
    /\ UNCHANGED nonConvVars

\* a request's model id and the candidates of a backend response
InitResponse ==
    /\ ConvBase
    /\ convIn \in [model : ModelIDs, candidates : CandidateLists]
    /\ convOut = NoValue

NextResponse ==
    \/ ConvertResponse

ResponseSpec == InitResponse /\ [][NextResponse]_vars

-----------------------------------------------------------------------------
(* FormatConverter: ValidateAndFixRequest *)

\* a nil pointer, and a pointer to v
None == <<>>
Some(v) == <<v>>
Opt(S) == {None} \cup {Some(v) : v \in S}

\* roles of the contents of a Gemini request, "" when not given
ContentRoles == {"", "user", "model"}
RoleLists == UNION {[1..n -> ContentRoles] : n \in 0..MaxMsgs}

\* temperature and top_p in tenths
GenerationConfigs ==
    [maxOutputTokens : Opt({100, 4000, 9000}),
     temperature     : Opt({-5, 10, 25}),
     topP            : Opt({-1, 5, 15}),
     topK            : Opt({-3, 40})]

\* modelLimits, 0 for a model that is not in the table
ModelLimit(modelID) ==
    CASE modelID \in {"gemini-pro", "gemini-pro-vision"} -> 2048
      [] modelID \in {"gemini-1.5-pro", "gemini-1.5-flash", "gemini-2.5-pro", "gemini-2.5-flash"} -> 8192
      [] OTHER -> 0

\* the first loop: an empty role becomes user at the start or after model,
\* and model otherwise
RECURSIVE FixRoles(_, _, _)
FixRoles(roles, i, lastRole) ==
    IF i > Len(roles) THEN roles
    ELSE LET role == IF roles[i] # "" THEN roles[i]
                     ELSE IF i = 1 \/ lastRole = "model" THEN "user" ELSE "model"
         IN  FixRoles([roles EXCEPT ![i] = role], i + 1, role)

\* the Code Assist loop over roles still empty
AutoRoles(roles, useCodeAssist) ==
    IF useCodeAssist THEN [i \in DOMAIN roles |-> IF roles[i] = "" THEN "auto" ELSE roles[i]]
    ELSE roles

ClampMaxOutputTokens(maxTok, modelID) ==
    IF ModelLimit(modelID) # 0
    THEN IF maxTok = None \/ maxTok[1] > ModelLimit(modelID) THEN Some(ModelLimit(modelID)) ELSE maxTok
    ELSE IF maxTok = None THEN Some(DefaultTokens) ELSE maxTok

Clamp(v, lo, hi) ==
    IF v = None THEN None
    ELSE IF v[1] < lo THEN Some(lo)
    ELSE IF v[1] > hi THEN Some(hi)
    ELSE v

\* a top_k below 1 moved up by one
ClampTopK_Step(k) == IF k # None /\ k[1] < 1 THEN Some(k[1] + 1) ELSE k

\* if config.TopK != nil && *config.TopK < 1
ClampTopK(k) == IF k # None /\ k[1] < 1 THEN Some(1) ELSE k

\* req.GenerationConfig after the clamping
FixConfig(config, modelID) ==
    [maxOutputTokens |-> ClampMaxOutputTokens(config.maxOutputTokens, modelID),
     temperature     |-> Clamp(config.temperature, 0, 20),
     topP            |-> Clamp(config.topP, 0, 10),
     topK            |-> ClampTopK(config.topK)]

\* the request as ValidateAndFixRequest leaves it
ValidateAndFixRequest(req, modelID, useCodeAssist) ==
    [roles  |-> AutoRoles(FixRoles(req.roles, 1, ""), useCodeAssist),
     config |-> IF req.config = None THEN None ELSE Some(FixConfig(req.config[1], modelID))]

\* one more call of ValidateAndFixRequest on the same request
Validate ==
    /\ IF convOut = NoValue
       THEN convOut' = [req   |-> ValidateAndFixRequest(convIn.req, convIn.modelID, convIn.useCodeAssist),
                        calls |-> 1]
       ELSE /\ convOut.calls < MaxApply
            /\ convOut' = [req   |-> ValidateAndFixRequest(convOut.req, convIn.modelID, convIn.useCodeAssist),
                           calls |-> convOut.calls + 1]
    /\ UNCHANGED convIn
    /\ UNCHANGED nonConvVars

\* a Gemini request, a model id and the converter's mode
InitValidate ==
    /\ ConvBase
    /\ convIn \in [req : [roles : RoleLists, config : Opt(GenerationConfigs)],
                   modelID : ModelIDs, useCodeAssist : BOOLEAN]
    /\ convOut = NoValue

NextValidate ==
    \/ Validate

ValidateSpec == InitValidate /\ [][NextValidate]_vars

-----------------------------------------------------------------------------
(* Route selection by concurrent goroutines: no lock guards c.proxyURLs *)
(* and c.client.Transport                                                *)

nonRaceVars == <<authVars, chanVars, lastCall, waitVars, proxyVars, accessVars, clientAuth,
                 maxRetries, sendVars, discVars, poolVars, streamVars, roleVars, pathVars,
                 healthVars, gateVars, convVars, projVars>>

Rotators == {"r1", "r2"}
Setters == {"s1"}
\* arguments of SetProxy and SetProxyList
SingleArgs == {"", "http://p3:8080"}
ListArgs == {<<>>, <<"http://p1:8080">>, <<"http://p1:8080", "http://p2:8080", "http://p3:8080">>}

Goto(t, pc, loc) ==
    /\ rpc' = [rpc EXCEPT ![t] = pc]
    /\ rloc' = [rloc EXCEPT ![t] = loc]

\* RotateProxy by a retrying request: len(c.proxyURLs) <= 1 returns at once
RotateEnter(t) ==
    /\ fault = "none"
    /\ t \in Rotators
    /\ rpc[t] = "idle"
    /\ Len(proxyURLs) > 1
    /\ Goto(t, "check", NoLocal)
    /\ UNCHANGED <<proxyURLs, transport, fault>>
    /\ UNCHANGED nonRaceVars

\* setRandomProxy: if len(c.proxyURLs) == 0 { c.client.Transport = nil }
SelectCheck(t) ==
    /\ fault = "none"
    /\ rpc[t] = "check"
    /\ IF Len(proxyURLs) = 0
       THEN transport' = "direct" /\ Goto(t, "idle", NoLocal)
       ELSE transport' = transport /\ Goto(t, "draw", rloc[t])
    /\ UNCHANGED <<proxyURLs, fault>>
    /\ UNCHANGED nonRaceVars

\* c.randSource.Intn(len(c.proxyURLs)): Intn panics when its argument is 0
SelectDraw(t, i) ==
    /\ fault = "none"
    /\ rpc[t] = "draw"
    /\ IF Len(proxyURLs) = 0
       THEN /\ i = 1
            /\ fault' = "invalid argument to Intn"
            /\ UNCHANGED <<rpc, rloc>>
       ELSE /\ i \in 1..Len(proxyURLs)
            /\ fault' = fault
            /\ Goto(t, "index", [rloc[t] EXCEPT !.n = Len(proxyURLs), !.idx = i])
    /\ UNCHANGED <<proxyURLs, transport>>
    /\ UNCHANGED nonRaceVars

\* c.proxyURLs[...]: the slice is read again, with a bounds check
SelectIndex(t) ==
    /\ fault = "none"
    /\ rpc[t] = "index"
    /\ IF rloc[t].idx > Len(proxyURLs)
       THEN /\ fault' = "index out of range"
            /\ UNCHANGED <<rpc, rloc>>
       ELSE /\ fault' = fault
            /\ Goto(t, "store", [rloc[t] EXCEPT !.url = proxyURLs[rloc[t].idx]])
    /\ UNCHANGED <<proxyURLs, transport>>
    /\ UNCHANGED nonRaceVars

\* url.Parse, then c.client.Transport = transport
SelectStore(t) ==
    /\ fault = "none"
    /\ rpc[t] = "store"
    /\ transport' = IF Parses(rloc[t].url) THEN rloc[t].url ELSE transport
    /\ Goto(t, "idle", NoLocal)
    /\ UNCHANGED <<proxyURLs, fault>>
    /\ UNCHANGED nonRaceVars

\* SetProxy: c.client.Transport is written first, c.proxyURLs second
SetProxyEnter(t, u) ==
    /\ fault = "none"
    /\ t \in Setters
    /\ rpc[t] = "idle"
    /\ IF u # "" /\ ~Parses(u)
       THEN UNCHANGED <<transport, rpc, rloc>>
       ELSE /\ transport' = IF u = "" THEN "direct" ELSE u
            /\ Goto(t, "assign", [NoLocal EXCEPT !.arg = IF u = "" THEN <<>> ELSE <<u>>])
    /\ UNCHANGED <<proxyURLs, fault>>
    /\ UNCHANGED nonRaceVars

\* SetProxyList: an empty list clears the transport and then the list; a list
\* with a parsable entry replaces c.proxyURLs and goes on into setRandomProxy
SetProxyListEnter(t, list) ==
    /\ fault = "none"
    /\ t \in Setters
    /\ rpc[t] = "idle"
    /\ LET valid == SelectSeq(list, Parses) IN
       IF list = <<>> THEN
           /\ transport' = "direct"
           /\ proxyURLs' = proxyURLs
           /\ Goto(t, "assign", [NoLocal EXCEPT !.arg = <<>>])
       ELSE IF valid = <<>> THEN
           UNCHANGED <<transport, proxyURLs, rpc, rloc>>
       ELSE
           /\ proxyURLs' = valid
           /\ transport' = transport
           /\ Goto(t, "check", NoLocal)
    /\ UNCHANGED fault
    /\ UNCHANGED nonRaceVars

\* c.proxyURLs = nil, c.proxyURLs = []string{proxyURL}
AssignList(t) ==
    /\ fault = "none"
    /\ rpc[t] = "assign"
    /\ proxyURLs' = rloc[t].arg
    /\ Goto(t, "idle", NoLocal)
    /\ UNCHANGED <<transport, fault>>
    /\ UNCHANGED nonRaceVars

RaceRotate == \E t \in Rotators : RotateEnter(t)
RaceCheck == \E t \in Goroutines : SelectCheck(t)
RaceDraw == \E t \in Goroutines, i \in 1..MaxList : SelectDraw(t, i)
RaceIndex == \E t \in Goroutines : SelectIndex(t)
RaceStore == \E t \in Goroutines : SelectStore(t)
RaceSetSingle == \E t \in Setters, u \in SingleArgs : SetProxyEnter(t, u)
RaceSetList == \E t \in Setters, list \in ListArgs : SetProxyListEnter(t, list)
RaceAssign == \E t \in Setters : AssignList(t)

\* a client over a pool of parsable routes, one of them active
InitRace ==
    /\ tokens = <<>>
    /\ currentTokens = NilToken
    /\ initialized = FALSE
    /\ tokenSource = NilToken
    /\ onTokenReceived = FALSE
    /\ gpProjectID = ""
    /\ FlowIdle
    /\ clientAuth = FALSE
    /\ proxyURLs \in Pools
    /\ transport \in (IF proxyURLs = <<>> THEN {"direct"} ELSE Range(proxyURLs))
    /\ maxRetries = DefaultMaxRetries
    /\ SendIdle
    /\ ExtIdle

NextRace ==
    \/ RaceRotate
    \/ RaceCheck
    \/ RaceDraw
    \/ RaceIndex
    \/ RaceStore
    \/ RaceSetSingle
    \/ RaceSetList
    \/ RaceAssign

RaceSpec == InitRace /\ [][NextRace]_vars

-----------------------------------------------------------------------------
(* The project id: the proxy's configuration and the client's own copy *)

APIModes == {"code_assist", "ai_studio"}

\* InitializeWithGoogleAuth after setupClientAndServer (gemini.go:261-270):
\* with a persisted token that loads, project discovery runs before the
\* server starts, and main exits when it fails
StartWithGoogleAuth(disc, saveOK) ==
    /\ running
    /\ initResult = "none"
    /\ LET cur == LoadTokens(tokens, currentTokens) IN
       IF tokens = <<>> THEN
           /\ initResult' = "skipped"
           /\ UNCHANGED <<currentTokens, tokenSource, initialized, gpProjectID, running>>
       ELSE IF cur = NilToken THEN
           /\ initResult' = ErrAuthRequired
           /\ currentTokens' = cur
           /\ UNCHANGED <<tokenSource, initialized, gpProjectID, running>>
       ELSE LET r == handleProjectIDDiscovery(disc, saveOK) IN
           /\ initResult' = "nil"
           /\ currentTokens' = cur
           /\ tokenSource' = cur
           /\ initialized' = TRUE
           /\ gpProjectID' = r.projectID
           /\ running' = (r.err = "")
    /\ UNCHANGED <<tokens, callbackPath, onTokenReceived, chanVars, lastCall, waitVars>>
    /\ UNCHANGED <<pending, gpTokenFile, lastPersist, lastGet, clientVars, sendVars>>
    /\ UNCHANGED extVars

Startup == \E disc \in DiscoveryResults, saveOK \in BOOLEAN : StartWithGoogleAuth(disc, saveOK)

\* a streaming request through the Dispatcher that the backend answers 200
Answered == [err |-> "", code |-> 200, body |-> "", decodable |-> TRUE]
StreamRequest == \E modelID \in {"gemini-2.5-pro", "gemini-pro"} :
                     SendStreamRequestRaw(modelID, Answered, TRUE)

\* NewGeminiProxy over a configuration with or without a persisted token and
\* a project id, then setupClientAndServer: the client gets a configuration
\* of its own, filled from the proxy's
InitProject ==
    /\ gpTokenFile \in {NoEntry, [b64ok |-> TRUE, jsonok |-> TRUE, access |-> "A", expired |-> FALSE]}
    /\ tokens = IF gpTokenFile = NoEntry THEN <<>> ELSE <<gpTokenFile>>
    /\ currentTokens = NilToken
    /\ initialized = FALSE
    /\ tokenSource = NilToken
    /\ onTokenReceived = TRUE
    /\ gpProjectID \in {"", "configured-project"}
    /\ callbackPath = BoundPath
    /\ authComplete = <<>>
    /\ fatalErrorChan = <<>>
    /\ lastCall = NoCall
    /\ wpc = [w \in Waiters |-> "idle"]
    /\ okWaits = 0
    /\ pending = <<>>
    /\ lastPersist = ""
    /\ running = TRUE
    /\ initResult = "none"
    /\ lastGet = "none"
    /\ clientAuth = TRUE
    /\ proxyURLs = <<>>
    /\ transport = "direct"
    /\ maxRetries = DefaultMaxRetries
    /\ SendIdle
    /\ DiscIdle /\ PoolIdle /\ StreamIdle /\ LateIdle /\ RaceIdle
    /\ apiMode \in APIModes
    /\ cfgProject = gpProjectID
    /\ envelope = NoEnvelope

NextProject ==
    \/ Startup
    \/ Callback
    \/ Persist
    \/ StreamRequest

ProjectSpec == InitProject /\ [][NextProject]_vars

-----------------------------------------------------------------------------
(* Properties of the OAuth callback *)

\* the request of the last callback went down the provider-error branch
LastWasProviderError == lastCall.req.path = callbackPath /\ lastCall.req.error # ""

\* the parameters of a callback that completes a successful exchange
Completes(req, exOK) == req.path = callbackPath /\ req.error = "" /\ req.code # "" /\ exOK

\* C4: a callback on the bound path carrying error=access_denied is answered
\* with 400 and a JSON body whose error field is access_denied; it attempts no
\* exchange, sends no auth-complete signal, spawns no persistence callback and
\* leaves the credential, the authorization state and the slot as they were
C4_ProviderErrorRejected ==
    /\ [](LastWasProviderError =>
            /\ lastCall.resp.code = 400
            /\ lastCall.resp.ctype = "application/json"
            /\ "error" \in lastCall.resp.fields
            /\ lastCall.resp.error = lastCall.req.error
            /\ lastCall.exchange = "none"
            /\ lastCall.signal = "none"
            /\ ~lastCall.spawned)
    /\ [][\A req \in Requests, exOK \in BOOLEAN, tok \in ExchangeTokens :
            (req.path = callbackPath /\ req.error # "" /\ lastCall'.req = req
                /\ handleOAuthCallback(req, exOK, tok))
            => UNCHANGED <<currentTokens, initialized, tokenSource, authComplete, pending, wpc>>]_vars

C4_Witness ==
    /\ lastCall.req = [path |-> BoundPath, error |-> "access_denied", code |-> "c1"]
    /\ lastCall.resp.code = 400
    /\ lastCall.resp.error = "access_denied"
    /\ currentTokens = NilToken
    /\ ~initialized
    /\ authComplete = <<>>

\* C5: a callback that does not complete a successful exchange (wrong path,
\* provider error, no code, failed exchange) leaves the credential, the
\* authorization state and both notification slots unchanged, and a wrong
\* path attempts no exchange whatever the query carries
C5_NoStateChangeWithoutExchange ==
    [][\A req \in Requests, exOK \in BOOLEAN, tok \in ExchangeTokens :
        (~Completes(req, exOK) /\ lastCall'.req = req /\ handleOAuthCallback(req, exOK, tok))
        => /\ UNCHANGED <<currentTokens, initialized, tokenSource, authComplete, fatalErrorChan>>
           /\ UNCHANGED <<pending, wpc>>
           /\ (req.path # callbackPath => lastCall'.exchange = "none")]_vars

\* a wrong-path request carrying a code, after an earlier successful exchange
\* whose credential and signal are still there
C5_Witness ==
    /\ lastCall.req = [path |-> "/wrong/path", error |-> "", code |-> "c1"]
    /\ lastCall.exchange = "none"
    /\ currentTokens \in ExchangeTokens
    /\ authComplete = <<TRUE>>

\* the branch the last callback took
Branch ==
    IF lastCall.req.path # callbackPath THEN "wrong path"
    ELSE IF lastCall.req.error # "" THEN "provider error"
    ELSE IF lastCall.req.code = "" THEN "no code"
    ELSE IF lastCall.exchange = "failed" THEN "exchange failed"
    ELSE "success"

BranchCode ==
    CASE Branch = "success" -> 200
      [] Branch = "no code" -> 204
      [] Branch \in {"wrong path", "provider error"} -> 400
      [] Branch = "exchange failed" -> 500

IsStatusPayload(resp) ==
    resp.ctype = "application/json" /\ {"status", "message"} \subseteq resp.fields

\* C6 as stated: every branch answers with a JSON payload holding status and
\* message, with the status code of its branch
C6_EveryBranchJSON ==
    lastCall # NoCall =>
        IsStatusPayload(lastCall.resp) /\ lastCall.resp.code = BranchCode

\* C6: the status code is determined by the branch (200 success, 204 no code,
\* 400 wrong path or provider error, 500 failed exchange) and is never another
\* one; the success, provider-error and exchange-failure branches answer with a
\* JSON payload holding status and message, the wrong-path branch answers in
\* plain text and the no-code branch with no body
C6_StatusByBranch ==
    lastCall # NoCall =>
        /\ lastCall.resp.code = BranchCode
        /\ lastCall.resp.code \in {200, 204, 400, 500}
        /\ Branch \in {"success", "provider error", "exchange failed"}
              => IsStatusPayload(lastCall.resp)
        /\ Branch = "wrong path"
              => lastCall.resp.ctype = "text/plain" /\ lastCall.resp.fields = {}
        /\ Branch = "no code"
              => lastCall.resp.ctype = "" /\ lastCall.resp.fields = {}

C6_Witness == Branch = "exchange failed" /\ lastCall.resp.code = 500

\* C7: the auth-complete slot holds at most one signal; a successful callback
\* that finds it full leaves it as it is and still completes; after the last
\* successful callback at most one WaitForAuth has returned success
C7_SingleSlot ==
    /\ [](Len(authComplete) <= ChanCap /\ okWaits <= 1)
    /\ []((running /\ Len(pending) < MaxPending /\ authComplete # <<>>)
            => \A tok \in ExchangeTokens :
                 ENABLED handleOAuthCallback([path |-> BoundPath, error |-> "", code |-> "c1"],
                                             TRUE, tok))
    /\ [][\A req \in Requests, tok \in ExchangeTokens :
            (Completes(req, TRUE) /\ authComplete # <<>> /\ handleOAuthCallback(req, TRUE, tok))
            => authComplete' = authComplete /\ lastCall'.signal = "dropped"]_vars

\* a second signal was dropped and one WaitForAuth has since consumed the first
C7_Witness ==
    /\ lastCall.signal = "dropped"
    /\ okWaits = 1
    /\ authComplete = <<>>

\* C8: the persistence callback never touches the answer of the callback that
\* spawned it, which is the 200 success reply; its project-id failure goes on
\* the fatal-error slot when the slot is empty and is dropped otherwise; no
\* other outcome of it reaches the slot
C8_FatalOnlyForProjectID ==
    /\ [](lastCall.spawned => lastCall.resp = SuccessReply /\ lastCall.resp.code = 200)
    /\ [][\A i \in 1..(MaxPending + 1), tokSaveOK \in BOOLEAN,
            disc \in DiscoveryResults, saveOK \in BOOLEAN :
            PersistGoroutine(i, tokSaveOK, disc, saveOK)
            => /\ lastCall' = lastCall
               /\ IF lastPersist' = ErrProjectIDRequired
                  THEN fatalErrorChan' = IF fatalErrorChan = <<>>
                                         THEN <<ErrProjectIDRequired>>
                                         ELSE fatalErrorChan
                  ELSE fatalErrorChan' = fatalErrorChan]_vars

C8_Witness ==
    /\ lastPersist = ErrProjectIDRequired
    /\ fatalErrorChan = <<ErrProjectIDRequired>>
    /\ lastCall.resp.code = 200
    /\ lastCall.spawned

-----------------------------------------------------------------------------
(* Properties of Initialize and of the state a callback leaves *)

\* C2 as stated: once the last callback completed a successful exchange, the
\* token is stored, GetToken succeeds and a request built by a client holding
\* this manager carries the bearer header
C2_AuthorizedAfterCallback ==
    lastCall.exchange = "ok" =>
        /\ currentTokens \in ExchangeTokens
        /\ initialized
        /\ GetTokenResult(TRUE).err = ""
        /\ (clientAuth => createRequest(TRUE).bearer # "")

\* an entry that decodes, parses and has an access token
ValidEntry(e) == e.b64ok /\ e.jsonok /\ e.access # ""

\* the index of the first valid entry of a list, 0 when there is none
FirstValidIndex(list) ==
    IF \E i \in DOMAIN list : ValidEntry(list[i])
    THEN CHOOSE i \in DOMAIN list :
             ValidEntry(list[i]) /\ \A j \in 1..(i - 1) : ~ValidEntry(list[j])
    ELSE 0

\* C10 as stated: Initialize adopts the first valid entry and becomes
\* Authorized; with none valid it returns the authorization-required error
\* and stays not Authorized with no credential; on an Authorized manager it
\* returns success and changes nothing
C10_InitializeFirstValid ==
    [][Initialize =>
        IF initialized THEN
            /\ initResult' = "nil"
            /\ UNCHANGED <<currentTokens, tokenSource, initialized>>
        ELSE IF FirstValidIndex(tokens) # 0 THEN
            LET e == tokens[FirstValidIndex(tokens)] IN
            /\ currentTokens' = [access |-> e.access, expired |-> e.expired, origin |-> "loaded"]
            /\ initialized'
            /\ initResult' = "nil"
        ELSE
            /\ initResult' = ErrAuthRequired
            /\ ~initialized'
            /\ currentTokens' = NilToken]_vars

-----------------------------------------------------------------------------
(* Properties of Send *)

\* the transport errors of the model that the lexicon makes transient
TransientErrors == {"dial tcp: connect: connection refused", "proxyconnect tcp: EOF"}

\* a finished Send whose every iteration made an outbound attempt that raised
\* a transient network error, under a configured bound of at least 1
AllAttemptsTransient ==
    /\ maxRetries >= 1
    /\ spc = "done"
    /\ hist # <<>>
    /\ \A i \in DOMAIN hist : hist[i].what \in TransientErrors

\* C1 as stated: whatever the pool holds, such a Send made exactly N attempts
\* and its error mentions "N attempts"
C1_AlwaysNAttempts ==
    AllAttemptsTransient => Len(hist) = maxRetries /\ sendErr.attempts = maxRetries

\* C1: with at least 2 routes in the pool such a Send made exactly N attempts
\* and its error mentions "N attempts"; with fewer than 2 routes it made
\* exactly one attempt and returns that attempt's error with no attempt count;
\* a Send never makes more than N attempts
C1_NAttemptsWithTwoRoutes ==
    /\ Len(hist) <= MaxRetriesOf(maxRetries)
    /\ AllAttemptsTransient =>
          /\ sendErr.kind = "request failed"
          /\ sendErr.detail \in TransientErrors
          /\ IF Len(proxyURLs) >= 2
             THEN Len(hist) = maxRetries /\ sendErr.attempts = maxRetries
             ELSE Len(hist) = 1 /\ sendErr.attempts = 0

C1_Witness ==
    /\ AllAttemptsTransient
    /\ Len(proxyURLs) = 2
    /\ maxRetries = 3
    /\ Len(hist) = 3
    /\ sendErr.attempts = 3

\* a finished Send over a 2-route pool whose first attempt failed with
\* "connection refused" and whose second attempt succeeded
RefusedThenOK ==
    /\ Len(proxyURLs) = 2
    /\ spc = "done"
    /\ Len(hist) = 2
    /\ hist[1].what = "dial tcp: connect: connection refused"
    /\ hist[2].what = "ok"

\* C3 as stated: the active route after such a Send differs from attempt 1's
C3_RouteDiffers ==
    RefusedThenOK =>
        /\ rotations = 1
        /\ sendErr = NoErr
        /\ transport # hist[1].route

\* C3: such a Send rotated exactly once between the two attempts and returns
\* success; the active route after it is the route of attempt 2, one of the
\* pool's two routes, which the random draw may make the route of attempt 1
C3_RotatesOnce ==
    RefusedThenOK =>
        /\ rotations = 1
        /\ sendErr = NoErr
        /\ transport = hist[2].route
        /\ transport \in Range(proxyURLs)

\* the draw reselected the route that had just refused the connection
C3_Witness ==
    /\ RefusedThenOK
    /\ rotations = 1
    /\ sendErr = NoErr
    /\ transport = hist[1].route

-----------------------------------------------------------------------------
(* Properties of DiscoverProjectID *)

\* an onboarding answer that reports completion with an assigned id
Completed(a) == a.err = "" /\ a.done /\ a.id # ""

\* C11: the onboarding loop sends at most 10 onboarding requests; it returns
\* the id of the first answer that reports completion with a non-empty id,
\* having backed off once (2 seconds) after each earlier answer, none of which
\* completed; an answer that does not complete is followed by a backoff; and
\* when all 10 answers fail to complete it returns the timeout error
C11_OnboardingLoop ==
    /\ [](onboardCalls <= MaxOnboardAttempts /\ backoffs <= MaxOnboardAttempts)
    /\ []((dpc = "done" /\ discResult.id # "" /\ onboardCalls > 0)
            => /\ backoffs = onboardCalls - 1
               /\ incomplete = backoffs)
    /\ []((dpc = "done" /\ incomplete = MaxOnboardAttempts)
            => /\ onboardCalls = MaxOnboardAttempts
               /\ discResult.id = ""
               /\ discResult.cause = ErrOnboardTimeout)
    /\ []((dpc = "done" /\ discResult.cause = ErrOnboardTimeout)
            => incomplete = MaxOnboardAttempts)
    /\ [][\A a \in OnboardAnswers :
            OnboardCall(a) =>
                /\ Completed(a) => dpc' = "done" /\ discResult'.id = a.id
                /\ (a.err = "" /\ ~Completed(a)) => dpc' = "sleep" /\ discResult' = discResult
                /\ a.err # "" => dpc' = "done" /\ discResult'.id = ""]_vars

\* nine answers that are not done, then the id on the tenth call, after 18 s
C11_Witness ==
    /\ dpc = "done"
    /\ discResult.id = "123456789012"
    /\ onboardCalls = 10
    /\ incomplete = 9
    /\ backoffs = 9
    /\ backoffs * BackoffSeconds = 18

\* C12: a load call answered 200 with a non-empty project id ends
\* DiscoverProjectID with that id, and no onboarding request is sent
C12_LoadReturnsAtOnce ==
    /\ [][\A a \in LoadAnswers :
            (LoadCall(a) /\ a.err = "" /\ a.id # "")
            => /\ dpc' = "done"
               /\ discResult' = [id |-> a.id, err |-> "", cause |-> ""]
               /\ onboardCalls' = 0
               /\ loadCalls' = 1]_vars
    /\ []((dpc = "done" /\ discResult.id # "" /\ loadCalls = 1)
            => onboardCalls = 0 /\ backoffs = 0)

C12_Witness ==
    /\ dpc = "done"
    /\ discResult.id = "987654321098"
    /\ loadCalls = 1
    /\ onboardCalls = 0

-----------------------------------------------------------------------------
(* Properties of the proxy pool *)

\* C13 as stated: a non-empty route list has an active route that is one of
\* its routes, and an empty list has none
C13_ActiveRouteInList ==
    IF proxyURLs = <<>>
    THEN transport = "direct"
    ELSE transport \in Range(proxyURLs)

\* C14 as stated: RotateProxy changes nothing and returns nil on a pool of 0
\* or 1 routes; on 2 or more it makes a member of the list the active route;
\* it never changes the list
C14_RotateWithinList ==
    [][\A pick \in 1..(MaxList + 1) :
        RotateProxyCall(pick) =>
            /\ proxyURLs' = proxyURLs
            /\ Len(proxyURLs) <= 1 => transport' = transport /\ poolErr' = ""
            /\ Len(proxyURLs) >= 2 => transport' \in Range(proxyURLs)]_vars

\* the entries of a list that url.Parse accepts, in their order
RECURSIVE KeepParsable(_)
KeepParsable(list) ==
    IF list = <<>> THEN <<>>
    ELSE IF Head(list) \in UnparsableURLs THEN KeepParsable(Tail(list))
    ELSE <<Head(list)>> \o KeepParsable(Tail(list))

-----------------------------------------------------------------------------
(* Properties of streaming *)

\* the stream failed after the response headers had arrived
MidStreamFailure == streamRes.kind \in {"read", "callback"}

\* C16 as stated: a streaming response that fails after it has started ends
\* with exactly one error frame followed by the terminator frame
C16_ErrorFrameThenTerminator ==
    (stpc = "closed" /\ MidStreamFailure) =>
        /\ Len(wire) >= 2
        /\ wire[Len(wire) - 1] = "error"
        /\ wire[Len(wire)] = "[DONE]"
        /\ Cardinality({i \in DOMAIN wire : wire[i] = "error"}) = 1

\* C17 as stated: once the context is cancelled during a call no chunk is
\* delivered and the call returns the cancellation error, bare or wrapped
C17_NothingAfterCancel ==
    /\ lateDeliveries = 0
    /\ (ctxDone /\ stpc \in {"done", "closed"}) =>
            (streamRes.kind = "ctx" \/ streamRes.cause = "ctx")

\* C17: after the cancellation at most one chunk is delivered, the one whose
\* line had passed the select before the cancellation; no request is sent
\* once the context is cancelled; and a line that reaches the select after the
\* cancellation is not delivered, the call returning ctx.Err() there
C17_StopsAtNextCheck ==
    /\ [](lateDeliveries <= 1)
    /\ [][ctxDone => doCalls' = doCalls]_vars
    /\ [][(ctxDone /\ stpc = "check" /\ stpc' # "check") =>
            /\ streamRes' = [kind |-> "ctx", cause |-> ""]
            /\ stpc' = "done"
            /\ delivered' = delivered]_vars
    /\ [][(ctxDone /\ delivered' # delivered) =>
            /\ stpc' = "done"
            /\ streamRes'.kind = "callback"]_vars

\* a stream cancelled after its first chunk was delivered, ended at the
\* select of the second line
C17_Witness ==
    /\ ctxDone
    /\ streamRes.kind = "ctx"
    /\ Len(delivered) = 1
    /\ Len(received) = 2
    /\ lateDeliveries = 0
    /\ doCalls = 1

\* the lines of a stream that carry a chunk
Deliverable(lines) ==
    {i \in DOMAIN lines :
        /\ lines[i].prefix = "data: "
        /\ lines[i].data \in {"{A}", "{}", "{F}"}}

C19_CallbackErrorEndsStream ==
    /\ [][\A writeOK \in BOOLEAN :
            (delivered' # delivered /\ StreamDeliver(writeOK)) =>
                LET data  == received[Len(received)].data
                    fails == ctxDone \/ (data \in {"{A}", "{F}"} /\ ~writeOK)
                IN  IF fails
                    THEN /\ streamRes'.kind = "callback"
                         /\ streamRes'.cause = (IF ctxDone THEN "ctx" ELSE "write")
                         /\ stpc' = "done"
                    ELSE /\ stpc' = "scan"
                         /\ streamRes' = streamRes]_vars
    /\ [][streamRes.kind = "callback" => delivered' = delivered]_vars
    /\ [][StreamScanEOF => streamRes'.kind = "nil"]_vars
    /\ [][(streamRes.kind # "nil" /\ streamRes'.kind = "nil") => stpc = "scan"]_vars

\* the callback failed on the second chunk: one frame written, then the
\* error frame
C19_Witness ==
    /\ streamRes = [kind |-> "callback", cause |-> "write"]
    /\ delivered = <<1, 2>>
    /\ wire = <<"chunk", "error">>

\* C20: in every stream the first converted chunk, and no later one, carries
\* the role "assistant"; converting a chunk of one stream leaves the flag and
\* the chunks of every other stream as they were
C20_RoleOnFirstChunkOnly ==
    /\ [](\A s \in Streams : \A i \in DOMAIN produced[s] :
            (produced[s][i].role = "assistant") <=> (i = 1))
    /\ [](\A s \in Streams : \A i \in DOMAIN produced[s] :
            produced[s][i].role \in {"assistant", ""})
    /\ [](\A s \in Streams : roleSent[s] <=> (produced[s] # <<>>))
    /\ [][\A s \in Streams : \A chunk \in BackendChunks :
            ConvertChunk(s, chunk) =>
                \A t \in Streams \ {s} :
                    roleSent'[t] = roleSent[t] /\ produced'[t] = produced[t]]_vars

\* two streams at once, each with its own first chunk carrying the role
C20_Witness ==
    /\ Len(produced["s1"]) = 2
    /\ Len(produced["s2"]) = 2
    /\ produced["s1"][1].role = "assistant"
    /\ produced["s2"][1].role = "assistant"
    /\ produced["s1"][2].role = ""
    /\ produced["s2"][2].role = ""

-----------------------------------------------------------------------------
(* Properties of the callback path *)

C22_DistinctPaths ==
    \A m, n \in Managers :
        binding[m] # binding[n] =>
            /\ mgrPath[m] # mgrPath[n]
            /\ ~({m, n} \subseteq lastRoute.takenBy)

-----------------------------------------------------------------------------
(* Properties of token access and Health *)

\* C23: on a manager that is not initialized GetToken and Health return the
\* not-initialized error and no token; Health never panics; on an initialized
\* manager Health returns an error whenever the token it got from the token
\* source is expired or has no access token, and nil otherwise
C23_ErrorsUnlessAuthorized ==
    /\ [][\A refreshOK \in BOOLEAN :
            (~initialized /\ lastGet' # lastGet /\ GetToken(refreshOK)) =>
                lastGet' = "authentication not initialized"]_vars
    /\ [][\A refresh \in RefreshOutcomes :
            (lastHealth' # lastHealth /\ Health(refresh)) =>
                /\ lastHealth'.outcome \in {"nil", "error"}
                /\ (lastHealth'.outcome = "error") <=> (lastHealth'.err # "")
                /\ ~initialized =>
                      /\ lastHealth'.err = "authentication not initialized"
                      /\ lastHealth'.token = NilToken
                /\ (initialized /\ (lastHealth'.token.access = "" \/ lastHealth'.token.expired)) =>
                      lastHealth'.outcome = "error"
                /\ (initialized /\ lastHealth'.outcome = "nil") =>
                      tokenSource' = lastHealth'.token]_vars
    /\ [](lastHealth.outcome # "panic")
    /\ [](initialized => tokenSource # NilToken)

\* Health on an initialized manager whose refresh came back stale
C23_Witness ==
    /\ initialized
    /\ lastHealth.outcome = "error"
    /\ lastHealth.err = "token is invalid or expired"
    /\ lastHealth.token.expired

-----------------------------------------------------------------------------
(* Properties of the gateway's key check *)

\* the request carries no key in any of the four places
NoKeyPresented(req) ==
    /\ req.authorization = "<absent>"
    /\ req.xApiKey = "<absent>"
    /\ req.xGoogApiKey = "<absent>"
    /\ req.key = "<absent>"

\* the values the request presents as keys
Presented(req) ==
    ({req.xApiKey, req.xGoogApiKey, req.key} \ {"<absent>"})
        \cup (IF req.authorization \in {"Bearer k1", "Bearer bad", "Bearer "}
              THEN {SubSeq(req.authorization, 8, Len(req.authorization))}
              ELSE {})

\* C24 as stated: with a non-empty key list a request outside /health and
\* /oauth/ is forwarded only if it presents a configured key in one of the four
\* places, and a request with no key in any of them gets the 401
C24_KeyRequired ==
    (Len(apiKeys) > 0 /\ gwRes # "none"
        /\ gwReq.path \notin {"/health", "/oauth/callback/681255809395"}) =>
            /\ gwRes = "forwarded" =>
                  \E v \in Presented(gwReq) : \E i \in DOMAIN apiKeys : v = apiKeys[i]
            /\ NoKeyPresented(gwReq) => gwRes = "401"

-----------------------------------------------------------------------------
(* Properties of OpenAIToGeminiRequest *)

\* the user and assistant messages of a request, in their order
TurnsOf(req) == SelectSeq(req.messages, LAMBDA m : m.role \in {"user", "assistant"})

\* the number of the run of equal roles that the i-th turn belongs to
RECURSIVE RunOf(_, _)
RunOf(turns, i) ==
    IF i = 1 THEN 1
    ELSE RunOf(turns, i - 1) + (IF turns[i].role = turns[i - 1].role THEN 0 ELSE 1)

\* the texts of the turns of run k from turn i on, joined with newlines
RECURSIVE RunText(_, _, _, _)
RunText(turns, k, i, first) ==
    IF i > Len(turns) THEN ""
    ELSE IF RunOf(turns, i) # k THEN RunText(turns, k, i + 1, first)
    ELSE (IF first THEN "" ELSE "\n") \o turns[i].content \o RunText(turns, k, i + 1, FALSE)

\* C25: the converted turns are the runs of equal role of the user and
\* assistant messages, in their order, each holding the texts of its run joined
\* with newlines, so no text is lost, and no two adjacent turns have one role
C25_MergeKeepsTextAndOrder ==
    convOut # NoValue =>
        LET turns == TurnsOf(convIn)
            out   == convOut.contents
        IN  /\ Len(out) = (IF turns = <<>> THEN 0 ELSE RunOf(turns, Len(turns)))
            /\ \A k \in DOMAIN out :
                  /\ out[k].parts = <<RunText(turns, k, 1, TRUE)>>
                  /\ \A i \in DOMAIN turns :
                        RunOf(turns, i) = k =>
                            out[k].role = (IF turns[i].role = "user" THEN "user" ELSE "model")
            /\ \A k \in 1..(Len(out) - 1) : out[k].role # out[k + 1].role

\* two user messages around a system message, merged into one turn
C25_Witness ==
    /\ convIn.messages = <<[role |-> "user", content |-> "a"],
                           [role |-> "System", content |-> "b"],
                           [role |-> "user", content |-> "b"]>>
    /\ convOut # NoValue
    /\ convOut.contents = <<[role |-> "user", parts |-> <<"a\nb">>]>>

\* C26: the parts of the converted system instruction are the texts of the
\* system messages in their order followed by the parts of the explicit
\* system-instruction field, and no converted turn has the system role
C26_SystemPartsOrder ==
    convOut # NoValue =>
        LET sys == SelectSeq(convIn.messages, LAMBDA m : m.role \in {"system", "System"})
        IN  /\ Len(convOut.systemInstruction) = Len(sys) + Len(convIn.systemInstruction)
            /\ \A i \in DOMAIN sys : convOut.systemInstruction[i] = sys[i].content
            /\ \A j \in DOMAIN convIn.systemInstruction :
                  convOut.systemInstruction[Len(sys) + j] = convIn.systemInstruction[j]
            /\ \A k \in DOMAIN convOut.contents : convOut.contents[k].role \in {"user", "model"}

\* two system messages around a user message, and two explicit parts
C26_Witness ==
    /\ convIn.messages = <<[role |-> "System", content |-> "a"],
                           [role |-> "user", content |-> "a"],
                           [role |-> "System", content |-> "b"]>>
    /\ convIn.systemInstruction = <<"x", "y">>
    /\ convOut # NoValue
    /\ convOut.systemInstruction = <<"a", "b", "x", "y">>
    /\ Len(convOut.contents) = 1

-----------------------------------------------------------------------------
(* Properties of GeminiToOpenAIResponse *)

\* the candidate has a part with text
HasText(cand) == \E i \in DOMAIN cand.parts : cand.parts[i] # ""

\* C27 as stated: when some candidate of the backend response has non-empty
\* text, the converted response has the request's model id and content
C27_ContentWhenAnyCandidateHasText ==
    (convOut # NoValue /\ \E c \in DOMAIN convIn.candidates : HasText(convIn.candidates[c])) =>
        /\ convOut.model = convIn.model
        /\ convOut.content # ""

\* C27: the converted response always has the request's model id; its
\* content is non-empty exactly when the first candidate of the backend
\* response has a part with text
C27_ContentWhenFirstCandidateHasText ==
    convOut # NoValue =>
        /\ convOut.model = convIn.model
        /\ (convOut.content # "") <=>
              (convIn.candidates # <<>> /\ HasText(convIn.candidates[1]))

\* a first candidate whose text is in its second part
C27_Witness ==
    /\ convOut # NoValue
    /\ Len(convIn.candidates) = 2
    /\ convIn.candidates[1].parts = <<"", "a">>
    /\ convIn.model = "gemini-2.5-pro"
    /\ convOut.model = "gemini-2.5-pro"
    /\ convOut.content = "a"

-----------------------------------------------------------------------------
(* Properties of ValidateAndFixRequest *)

\* C28: a call of ValidateAndFixRequest on a request it has already been
\* applied to leaves the roles, temperature, top_p, top_k and max-output-tokens
\* as they were
C28_ClampIdempotent ==
    [][(convOut # NoValue /\ convOut' # convOut) =>
            /\ convOut'.calls = convOut.calls + 1
            /\ convOut'.req = convOut.req]_vars

\* a request the first call changed in roles and in every sampling field,
\* after the second call
C28_Witness ==
    /\ convOut # NoValue
    /\ convOut.calls = 2
    /\ convIn.req.roles = <<"", "", "model">>
    /\ convOut.req.roles = <<"user", "model", "model">>
    /\ convIn.req.config # <<>>
    /\ convIn.req.config[1].temperature = <<25>>
    /\ convOut.req.config[1].temperature = <<20>>
    /\ convIn.req.config[1].topK = <<-3>>
    /\ convOut.req.config[1].topK = <<1>>
    /\ convIn.req.config[1].maxOutputTokens = <<9000>>
    /\ convOut.req.config[1].maxOutputTokens = <<8192>>

-----------------------------------------------------------------------------
(* Properties of Send: what follows a failed attempt *)

\* the iteration that just ran sent its request and c.client.Do returned o.err
TransportFailure(o) ==
    /\ Len(hist') = Len(hist) + 1
    /\ hist'[Len(hist')].what = o.err

\* the loop goes on after error e: another iteration while attempts remain,
\* otherwise Send ends with e under the attempt count
GoesOn(e) ==
    /\ attempt' = attempt + 1
    /\ lastErr' = e
    /\ IF attempt + 1 < MaxRetriesOf(maxRetries)
       THEN spc' = "loop" /\ sendErr' = NoErr
       ELSE spc' = "done" /\ sendErr' = [e EXCEPT !.attempts = MaxRetriesOf(maxRetries)]

\* Send returns e at once
EndsWith(e) ==
    /\ spc' = "done"
    /\ sendErr' = e
    /\ attempt' = attempt

StatusFailure(o) ==
    /\ Len(hist') = Len(hist) + 1
    /\ hist'[Len(hist')].what = "status"

\* C30: a response with status 429 or >= 500 while the pool holds 2 or more
\* routes is followed by another attempt (while attempts remain), which
\* rotates before it does anything else; every other response that is not 200,
\* 429 or >= 500 over fewer than 2 routes included, ends Send at once with an
\* error that carries the status code and the response body
C30_RetryableStatusRotates ==
    /\ [][\A o \in Outcomes, pick \in 1..(MaxRoutes + 1), refreshOK \in BOOLEAN :
            (spc = "loop" /\ o.err = "" /\ o.code # 200
                /\ StatusFailure(o) /\ SendAttempt(o, pick, refreshOK))
            => IF (o.code = 429 \/ o.code >= 500) /\ Len(proxyURLs) >= 2
               THEN GoesOn([attempts |-> 0, kind |-> "API request failed with status",
                            detail |-> o.body, status |-> o.code])
               ELSE EndsWith([attempts |-> 0, kind |-> "API request failed with status",
                              detail |-> o.body, status |-> o.code])]_vars
    /\ [][(spc = "loop" /\ hist # <<>> /\ hist[Len(hist)].what = "status" /\ hist' # hist)
            => /\ rotations' = rotations + 1
               /\ Len(hist') = Len(hist) + 1
               /\ hist'[Len(hist')].route = transport'
               /\ transport' \in Range(proxyURLs)]_vars

\* over 2 routes a 429 was followed by a rotation and a second attempt, whose
\* 404 ended Send with the status and the body
C30_Witness ==
    /\ spc = "done"
    /\ Len(proxyURLs) = 2
    /\ Len(hist) = 2
    /\ hist[1].what = "status"
    /\ lastErr.status = 404
    /\ rotations = 1
    /\ sendErr = [attempts |-> 0, kind |-> "API request failed with status",
                  detail |-> "quota exceeded", status |-> 404]

-----------------------------------------------------------------------------
(* Properties of Send: rotations and what Send leaves alone *)

\* the rotations a Send that has run k iterations has made
RotationsDue(k) == IF Len(proxyURLs) >= 2 /\ k >= 1 THEN k - 1 ELSE 0

OutboundCalls == Cardinality({ i \in DOMAIN hist : hist[i].what # "not built" })

\* C32: Send makes at most max-retries outbound attempts, a configured value
\* of 0 or less counting as 3, and a Send inside its loop always ends, with a
\* response or an error, once each attempt it makes is answered or fails
C32_BoundedAndTerminates ==
    /\ [](/\ OutboundCalls <= (IF maxRetries <= 0 THEN 3 ELSE maxRetries)
          /\ Len(hist) <= (IF maxRetries <= 0 THEN 3 ELSE maxRetries))
    /\ (spc = "loop") ~> (spc = "done")

\* configured 0: three outbound attempts, then the error that counts them
C32_Witness ==
    /\ spc = "done"
    /\ maxRetries = 0
    /\ OutboundCalls = 3
    /\ sendErr.attempts = 3

\* C33: when the pool holds fewer than 2 routes, Send makes at most one
\* outbound call, whatever way that call fails
C33_OneCallWithoutSecondRoute ==
    Len(proxyURLs) < 2 => OutboundCalls <= 1

\* a finished request over 2 or more routes, with at least 2 attempts
\* allowed, whose first attempt failed with a transient transport error
FirstAttemptTransient ==
    /\ spc = "done"
    /\ Len(proxyURLs) >= 2
    /\ (IF maxRetries <= 0 THEN 3 ELSE maxRetries) >= 2
    /\ hist # <<>>
    /\ hist[1].what \in TransientErrors

\* C34: a streaming request whose first attempt fails with a transient
\* transport error before the headers arrive, over 2 or more routes, rotates
\* and makes another attempt
C34_StreamRetriesTransient ==
    FirstAttemptTransient => Len(hist) >= 2 /\ rotations >= 1

-----------------------------------------------------------------------------
(* Properties of concurrent route selection *)

\* C35: under every interleaving of concurrent rotations with each other and
\* with SetProxy and SetProxyList, no selection draws from an empty list or
\* indexes outside the list, and once every goroutine has left its pool
\* operation the active route is a member of the route list, or absent
\* when the list is empty
C35_SelectionsWithinList ==
    /\ fault = "none"
    /\ (\A t \in Goroutines : rpc[t] = "idle")
         => IF proxyURLs = <<>> THEN transport = "direct" ELSE transport \in Range(proxyURLs)

-----------------------------------------------------------------------------
(* Properties of the project id *)

\* C36: once the proxy's configuration holds a project id, which project
\* discovery stored there at startup or in the persistence callback when none
\* was configured, every internal-assist request the Dispatcher serializes
\* afterwards carries that id as the project of its envelope
C36_EnvelopeCarriesDiscoveredProject ==
    [][(apiMode = "code_assist" /\ gpProjectID # "" /\ lastPersist = "" /\ running
          /\ envelope'.sent
          /\ (envelope' # envelope \/ hist' # hist \/ sendErr' # sendErr))
        => envelope'.project = gpProjectID]_vars

-----------------------------------------------------------------------------
(* Properties of the stream the gateway forwards *)

\* the gateway's callback writes the chunk: it drops a chunk with empty
\* content and no finish reason
Forwards(c) == ~(c.content = "" /\ c.finish = "")

\* the data chunks of stream s that reached the gateway's client, in order
Forwarded(s) == SelectSeq(produced[s], Forwards)

\* C37: in every stream with at least one forwarded chunk, the first
\* forwarded chunk carries the assistant role and no later one does
C37_FirstForwardedCarriesRole ==
    \A s \in Streams :
        Forwarded(s) # <<>> =>
            /\ Forwarded(s)[1].role = "assistant"
            /\ \A i \in 2..Len(Forwarded(s)) : Forwarded(s)[i].role = ""

-----------------------------------------------------------------------------
(* Properties of the discovery calls *)

\* C38: an invocation of DiscoverProjectID issues exactly one load call, and
\* issues it before any onboarding request, whatever the load call returns
C38_ExactlyOneLoadCall ==
    /\ loadCalls <= 1
    /\ onboardCalls > 0 => loadCalls = 1
    /\ (dpc = "done" /\ discResult # NoDiscResult /\ discResult.err # ErrNoValidToken)
          => loadCalls = 1

\* C39: a non-200 status is never taken for "not finished yet". The load call
\* that receives it yields no id and is not repeated as such; the onboarding
\* request that receives it ends DiscoverProjectID with an error at once, with
\* no backoff and no onboarding request after it
C39_StatusFailureEndsDiscovery ==
    /\ [][\A a \in OnboardAnswers :
            (dpc = "onboard" /\ a.err = "onboard API returned status" /\ OnboardCall(a))
            => /\ dpc' = "done"
               /\ discResult' = [id |-> "",
                                 err |-> "could not discover a valid Google Cloud Project ID",
                                 cause |-> "onboard API returned status"]
               /\ backoffs' = backoffs
               /\ incomplete' = incomplete]_vars
    /\ [][\A a \in LoadAnswers :
            (dpc = "load" /\ a.err = "API returned status" /\ LoadCall(a))
            => /\ discResult' = discResult
               /\ discResult'.id = ""
               /\ dpc' = "tiers"]_vars
    /\ []((dpc = "done" /\ discResult.cause = "onboard API returned status")
            => /\ onboardCalls = backoffs + 1
               /\ incomplete = backoffs)
    /\ [][(dpc = "done" /\ discResult.cause = "onboard API returned status")
            => /\ onboardCalls' \in {onboardCalls, 0}
               /\ backoffs' \in {backoffs, 0}]_vars

\* two answers that were not done, then a non-200: three requests, two
\* backoffs, and the error
C39_Witness ==
    /\ dpc = "done"
    /\ discResult.cause = "onboard API returned status"
    /\ discResult.id = ""
    /\ onboardCalls = 3
    /\ backoffs = 2

-----------------------------------------------------------------------------
(* Properties of the manager's states *)

\* the last callback on the bound path carried the provider's error parameter
\* and was answered with the error payload
ProviderErrorAnswered ==
    /\ lastCall.req.path = callbackPath
    /\ lastCall.req.error # ""
    /\ lastCall.resp.status = "error"
    /\ lastCall.resp.error = lastCall.req.error

\* C40: the manager never leaves Authorized, and a provider authorization
\* error puts it in a terminal Failed state: a manager that is not Authorized
\* and whose last callback carried an error parameter is not made Authorized
\* by the operation that comes next, Initialize included
C40_FailedIsTerminal ==
    /\ [][initialized => initialized']_vars
    /\ [][(ProviderErrorAnswered /\ ~initialized) => ~initialized']_vars

=============================================================================
